---- MODULE Spec2Model ----
(***************************************************************************)
(* A model of the accounting-forecast evaluation pipeline: the per-company *)
(* data folder (company.json, the ledger, the per-run result files), the   *)
(* batch forecasting run (BatchProcessor), the result saver and the        *)
(* metrics pipeline that reads the results back and writes metrics into    *)
(* company.json.                                                           *)
(*                                                                         *)
(* Conventions.  A Python dict is a TLA+ function whose DOMAIN is the set  *)
(* of keys.  A string the code inspects (an account number, a status) is a *)
(* sequence: of digits for account numbers, of text pieces for statuses.   *)
(* A table cell is <<>> for NaN and <<n>> for the number n.  A date is     *)
(* <<year, month, day>>.                                                   *)
(***************************************************************************)
EXTENDS Integers, Sequences, FiniteSets, TLC

VARIABLES
    companyJson,   \* company id -> parsed content of company.json, or NoFile
    processDirs,   \* set of <<company, process_id>>: the run directories that exist
    resultFiles,   \* <<company, process_id, file name>> -> file content
    pc,            \* position of the running call ("idle" when none runs)
    batch,         \* locals of process_companies: company_ids, loop index, results
    run,           \* locals of the running process_company
    calls,         \* what the running process_company has called so far, in order
    nUuid,         \* number of uuid4 values drawn so far
    nApi,          \* number of calls made so far (each company of a batch counts)
    nFaults,       \* number of failing steps so far
    before         \* company.json and the files as they were when the running call began

vars == <<companyJson, processDirs, resultFiles, pc, batch, run, calls,
          nUuid, nApi, nFaults, before>>

----------------------------------------------------------------------------
(* Bounds of the model *)

\* length of the company_ids list handed to process_companies
MaxBatch == 2
\* calls made on the data folder: runs of process_company (direct, or one per
\* company of a batch), direct calls of update_company_metadata, and calls of
\* compute_metrics_for_company
MaxApiCalls == 3
\* failures of the file system, of the ledger data or of the forecaster (a step
\* that can fail does so only while fewer than this many failures have happened)
MaxFaults == 1
\* forecast_horizon given to BatchProcessor and the metrics pipeline (12 by default)
ForecastHorizon == 2

----------------------------------------------------------------------------
(* Generic helpers *)

NaN == <<>>
Num(n) == <<n>>
IsNaN(x) == x = NaN

Abs(n) == IF n < 0 THEN -n ELSE n

RECURSIVE SumSeq(_)
SumSeq(s) == IF s = <<>> THEN 0 ELSE Head(s) + SumSeq(Tail(s))

Range(s) == {s[i] : i \in DOMAIN s}

\* str.startswith(prefix)
StartsWith(s, p) == Len(p) <= Len(s) /\ SubSeq(s, 1, Len(p)) = p

\* str.startswith(tuple of prefixes)
StartsWithAny(s, ps) == \E p \in ps : StartsWith(s, p)

\* python slice s[:n]
Prefix(s, n) == SubSeq(s, 1, IF Len(s) < n THEN Len(s) ELSE n)

\* lexicographic order on sequences of integers (string and date order)
RECURSIVE LexLess(_, _)
LexLess(a, b) ==
    IF b = <<>> THEN FALSE
    ELSE IF a = <<>> THEN TRUE
    ELSE IF Head(a) # Head(b) THEN Head(a) < Head(b)
    ELSE LexLess(Tail(a), Tail(b))

LexLeq(a, b) == a = b \/ LexLess(a, b)

\* the elements of a set as a sequence in increasing order
RECURSIVE SortedSeq(_)
SortedSeq(S) ==
    IF S = {} THEN <<>>
    ELSE LET m == CHOOSE x \in S : \A y \in S : LexLeq(x, y)
         IN <<m>> \o SortedSeq(S \ {m})

\* the elements of a sequence that satisfy a membership test, order kept
RECURSIVE SelectIn(_, _)
SelectIn(s, S) ==
    IF s = <<>> THEN <<>>
    ELSE IF Head(s) \in S THEN <<Head(s)>> \o SelectIn(Tail(s), S)
    ELSE SelectIn(Tail(s), S)

----------------------------------------------------------------------------
(* Dates: pd.Timestamp at day resolution, pd.DateOffset(months=k) *)

IsLeap(y) == (y % 4 = 0 /\ y % 100 # 0) \/ y % 400 = 0

DaysInMonth(y, m) ==
    IF m = 2 THEN (IF IsLeap(y) THEN 29 ELSE 28)
    ELSE IF m \in {4, 6, 9, 11} THEN 30 ELSE 31

\* date + DateOffset(months=k), k possibly negative: the month moves, the day is
\* kept and clipped to the last day of the month reached
AddMonths(date, k) ==
    LET idx == date[1] * 12 + (date[2] - 1) + k
        y == idx \div 12
        m == (idx % 12) + 1
        dim == DaysInMonth(y, m)
    IN <<y, m, IF date[3] > dim THEN dim ELSE date[3]>>

\* the bin of pd.Grouper(freq='MS'): the first day of the date's month
MonthStart(date) == <<date[1], date[2], 1>>

----------------------------------------------------------------------------
(* Tables: a frame is [name, index, columns, val]; name is the index name,  *)
(* index the row labels in order, columns the column labels in order, val   *)
(* the cell of each <<row label, column label>>.                            *)

Frame(name, index, columns, val) ==
    [name |-> name, index |-> index, columns |-> columns, val |-> val]

EmptyFrame(name) == Frame(name, <<>>, <<>>, <<>>)

\* the function f itself, tabulated: each of its values is computed once
Tabulated(f) == f @@ << >>

Cells(index, columns, f(_, _)) ==
    Tabulated([k \in Range(index) \X Range(columns) |-> f(k[1], k[2])])

\* df[cols] / df.loc[:, mask]: the columns of cols, in the order of cols
SelectColumns(df, cols) ==
    Frame(df.name, df.index, cols, Cells(df.index, cols, LAMBDA d, a : df.val[<<d, a>>]))

\* df.loc[rows]: the given row labels, in the given order
SelectRows(df, rows) ==
    Frame(df.name, rows, df.columns, Cells(rows, df.columns, LAMBDA d, a : df.val[<<d, a>>]))

\* df.reindex(index, fill_value=fill)
ReindexRows(df, index, fill) ==
    Frame(df.name, index, df.columns,
          Cells(index, df.columns,
                LAMBDA d, a : IF d \in Range(df.index) THEN df.val[<<d, a>>] ELSE fill))

\* df.reindex(columns=cols, fill_value=fill)
ReindexColumns(df, cols, fill) ==
    Frame(df.name, df.index, cols,
          Cells(df.index, cols,
                LAMBDA d, a : IF a \in Range(df.columns) THEN df.val[<<d, a>>] ELSE fill))

\* df.fillna(v)
FillNa(df, v) ==
    Frame(df.name, df.index, df.columns,
          Cells(df.index, df.columns,
                LAMBDA d, a : IF IsNaN(df.val[<<d, a>>]) THEN v ELSE df.val[<<d, a>>]))

\* df.tail(n)
Tail_n(df, n) ==
    LET len == Len(df.index)
        from == IF len > n THEN len - n + 1 ELSE 1
    IN SelectRows(df, SubSeq(df.index, from, len))

\* one column as the sequence of its cells, in row order
Column(df, a) == [i \in DOMAIN df.index |-> df.val[<<df.index[i], a>>]]

----------------------------------------------------------------------------
(* The ledger: fec_loader.py *)

\* a ledger row as formatage leaves it (the columns the pipeline reads)
Row(journal, compte, date, debit, credit) ==
    [JournalCode |-> journal, CompteNum |-> compte, PieceDate |-> date,
     Debit |-> debit, Credit |-> credit]

\* formatage: drops the opening-balance (AN) and adjustment (AD) journals
formatage(rows) == SelectSeq(rows, LAMBDA r : r.JournalCode \notin {"AN", "AD"})

\* account numbers are cut to six characters by load_fecs
AccountDigits == 6

TruncateAccounts(rows) ==
    [i \in DOMAIN rows |-> [rows[i] EXCEPT !.CompteNum = Prefix(@, AccountDigits)]]

\* a faulty variant: a row dated exactly at the cut-off is in neither set
load_fecs_StrictCutoff(rows, upto, h) ==
    LET fecs == SelectSeq(TruncateAccounts(rows), LAMBDA r : LexLeq(r.PieceDate, upto))
        train_cutoff == AddMonths(upto, -h)
    IN [train |-> SelectSeq(fecs, LAMBDA r : LexLess(r.PieceDate, train_cutoff)),
        test  |-> SelectSeq(fecs, LAMBDA r : LexLess(train_cutoff, r.PieceDate))]

\* load_fecs(..., accounting_up_to_date=upto, train_test_split=True,
\* forecast_horizon=h) on the concatenated, formatted rows of the folder
load_fecs(rows, upto, h) ==
    LET fecs == SelectSeq(TruncateAccounts(rows), LAMBDA r : LexLeq(r.PieceDate, upto))
        train_cutoff == AddMonths(upto, -h)
    IN [train |-> SelectSeq(fecs, LAMBDA r : LexLeq(r.PieceDate, train_cutoff)),
        test  |-> SelectSeq(fecs, LAMBDA r : LexLess(train_cutoff, r.PieceDate))]

----------------------------------------------------------------------------
(* Monthly totals and preprocessing: preprocessing.py *)

RECURSIVE SoldeSum(_, _, _)
SoldeSum(rows, month, compte) ==
    IF rows = <<>> THEN 0
    ELSE (IF MonthStart(Head(rows).PieceDate) = month /\ Head(rows).CompteNum = compte
          THEN Head(rows).Debit - Head(rows).Credit ELSE 0)
         + SoldeSum(Tail(rows), month, compte)

\* fec_to_monthly_totals(fecs): rows of accounts 6xx/7xx, Solde = Debit - Credit,
\* summed per (month start, account); one record per observed pair
fec_to_monthly_totals(fecs) ==
    LET filtered == SelectSeq(fecs, LAMBDA r : StartsWithAny(r.CompteNum, {<<6>>, <<7>>}))
        keys == {<<MonthStart(filtered[i].PieceDate), filtered[i].CompteNum>> :
                     i \in DOMAIN filtered}
    IN {[PieceDate |-> k[1], CompteNum |-> k[2], Solde |-> SoldeSum(filtered, k[1], k[2])] :
            k \in keys}

\* monthly_totals.pivot(index='PieceDate', columns='CompteNum', values='Solde')
PivotMonthly(monthly) ==
    LET index == SortedSeq({r.PieceDate : r \in monthly})
        columns == SortedSeq({r.CompteNum : r \in monthly})
        cell(d, a) ==
            IF \E r \in monthly : r.PieceDate = d /\ r.CompteNum = a
            THEN Num((CHOOSE r \in monthly : r.PieceDate = d /\ r.CompteNum = a).Solde)
            ELSE NaN
    IN Frame("PieceDate", index, columns, Cells(index, columns, cell))

\* preprocessing_config.py
COVID_START_DATE == <<2020, 2, 1>>
COVID_END_DATE == <<2021, 5, 31>>
USE_COVID_DUMMIES == FALSE
ACTIVE_ACCOUNT_WINDOW_MONTHS == 12
REPLACE_ZEROS_WITH_NAN == TRUE

\* get_account_type_prefixes(classification): the prefixes of each type
get_account_type_prefixes(classification) ==
    [fixed_expenses_prefixes |-> {r.name : r \in {x \in classification : x.type = "fix"}},
     variable_expenses_prefixes |-> {r.name : r \in {x \in classification : x.type = "variable"}},
     revenue_prefixes |-> {r.name : r \in {x \in classification : x.type = "revenue"}},
     untyped_forecastable_prefixes |->
         {r.name : r \in {x \in classification : x.type = "forecastable"}}]

\* step 2: data_wide_format.where(data_wide_format != 0, np.nan)
ReplaceZeros(df) ==
    Frame(df.name, df.index, df.columns,
          Cells(df.index, df.columns,
                LAMBDA d, a : IF df.val[<<d, a>>] = Num(0) THEN NaN ELSE df.val[<<d, a>>]))

\* step 3: data_wide_format.loc[:accounting_date, :], index renamed 'ds'
TruncateTo(df, upto) ==
    [SelectRows(df, SelectIn(df.index, {d \in Range(df.index) : LexLeq(d, upto)}))
        EXCEPT !.name = "ds"]

\* a faulty variant: the slice starts after COVID_START_DATE
BlankCovid_AfterStart(df) ==
    Frame(df.name, df.index, df.columns,
          Cells(df.index, df.columns,
                LAMBDA d, a : IF LexLess(COVID_START_DATE, d) /\ LexLeq(d, COVID_END_DATE)
                              THEN NaN ELSE df.val[<<d, a>>]))

\* step 4: data_wide_format.loc[COVID_START_DATE:COVID_END_DATE, :] = np.nan
BlankCovid(df) ==
    Frame(df.name, df.index, df.columns,
          Cells(df.index, df.columns,
                LAMBDA d, a : IF LexLeq(COVID_START_DATE, d) /\ LexLeq(d, COVID_END_DATE)
                              THEN NaN ELSE df.val[<<d, a>>]))

\* step 6: the columns that start with a prefix of one of the four types
FilterByType(df, prefixes) ==
    SelectColumns(df, SelectIn(df.columns,
        {a \in Range(df.columns) :
            \/ StartsWithAny(a, prefixes.fixed_expenses_prefixes)
            \/ StartsWithAny(a, prefixes.variable_expenses_prefixes)
            \/ StartsWithAny(a, prefixes.revenue_prefixes)
            \/ StartsWithAny(a, prefixes.untyped_forecastable_prefixes)}))

\* last_n_months.columns[last_n_months.notna().any()].tolist()
ColumnsWithData(last_n) ==
    SelectIn(last_n.columns,
             {a \in Range(last_n.columns) :
                 \E d \in Range(last_n.index) : ~IsNaN(last_n.val[<<d, a>>])})

\* the wide table of preprocess_data after steps 1 to 4
DataWide(monthly, upto, covid_dummies, replace_zeros) ==
    LET pivoted == PivotMonthly(monthly)
        truncated == TruncateTo(IF replace_zeros THEN ReplaceZeros(pivoted) ELSE pivoted, upto)
    IN IF ~covid_dummies THEN BlankCovid(truncated) ELSE truncated

PreprocessingResult(data_wide, filtered, window, prefixes) ==
    [data_wide_format |-> data_wide,
     filtered_data_wide_format |-> filtered,
     \* step 7: the columns with a value in the last rows
     forecastable_accounts |-> ColumnsWithData(Tail_n(filtered, window)),
     account_type_prefixes |-> prefixes]

FilteredResult(data_wide, window, prefixes) ==
    PreprocessingResult(data_wide, FilterByType(data_wide, prefixes), window, prefixes)

\* preprocess_data(monthly_totals, accounting_date, classification,
\*                 use_covid_dummies, active_window_months, replace_zeros_with_nan)
preprocess_data(monthly, upto, classification, covid_dummies, window, replace_zeros) ==
    FilteredResult(DataWide(monthly, upto, covid_dummies, replace_zeros), window,
                   get_account_type_prefixes(classification))

----------------------------------------------------------------------------
(* The data folder the model runs on *)

A601000 == <<6, 0, 1, 0, 0, 0>>
A606100 == <<6, 0, 6, 1, 0, 0>>
A622000 == <<6, 2, 2, 0, 0, 0>>
A707000 == <<7, 0, 7, 0, 0, 0>>

CompanyIds == {"RESTO1", "RESTO2", "GHOST"}

\* the rows of the ledger files of a company folder, as read (before formatage)
FecRows(c) ==
    IF c = "RESTO1" THEN
        << Row("AN", <<1, 0, 1, 0, 0, 0>>, <<2024, 1, 1>>, 0, 50),
           Row("VT", A707000, <<2024, 1, 15>>, 0, 10),
           Row("VT", A707000, <<2024, 2, 15>>, 0, 10),
           Row("AC", A601000, <<2024, 2, 10>>, 5, 0),
           Row("AC", <<6, 0, 1, 0, 0, 0, 1>>, <<2024, 3, 10>>, 3, 0),
           Row("AC", A606100, <<2024, 3, 5>>, 2, 0),
           Row("AC", A606100, <<2024, 3, 25>>, 0, 2),
           Row("VT", A707000, <<2024, 3, 20>>, 0, 12),
           Row("VT", A707000, <<2024, 4, 20>>, 0, 12),
           Row("AC", A601000, <<2024, 4, 10>>, 4, 0),
           Row("VT", A707000, <<2024, 5, 15>>, 0, 11),
           Row("AC", A601000, <<2024, 5, 10>>, 6, 0),
           Row("BQ", <<5, 1, 2, 0, 0, 0>>, <<2024, 5, 5>>, 7, 0),
           Row("VT", A707000, <<2024, 6, 15>>, 0, 11),
           Row("AC", A622000, <<2024, 6, 10>>, 1, 0),
           Row("VT", A707000, <<2024, 7, 15>>, 0, 9) >>
    ELSE IF c = "RESTO2" THEN
        << Row("AC", A601000, <<2024, 2, 10>>, 4, 0),
           Row("AC", A601000, <<2024, 2, 20>>, 0, 4),
           Row("BQ", <<5, 1, 2, 0, 0, 0>>, <<2024, 5, 5>>, 7, 0) >>
    ELSE << >>

\* whether the company folder holds a ledger file (.txt, .csv or .tsv)
HasFecFiles(c) == c \in {"RESTO1", "RESTO2"}

\* the rows of the classification file shipped with the package
ClassifFile ==
    { [name |-> <<6, 0, 1>>, type |-> "variable"],
      [name |-> <<6, 0, 3>>, type |-> "variable"],
      [name |-> <<6, 0, 6>>, type |-> "fix"],
      [name |-> <<6, 1, 1>>, type |-> "fix"],
      [name |-> <<7>>, type |-> "revenue"] }

\* load_classification_charges: account 603 is reclassified as fixed
load_classification_charges ==
    { IF r.name = <<6, 0, 3>> THEN [r EXCEPT !.type = "fix"] ELSE r : r \in ClassifFile }

\* process ids in company.json before the model starts: one whose result file
\* is on disk, one whose process folder is gone, and one whose result file
\* holds no account of the test period
PidStored == 100
PidGone == 101
PidNoCommon == 102

\* one record of forecast_versions
Version(name, pid, status, meta) ==
    [version_name |-> name, process_id |-> pid, status |-> status, meta_data |-> meta]

AccountMeta(type, ftype) == [account_type |-> type, forecast_type |-> ftype]

NoFile == [missing |-> TRUE]
Exists(json) == "missing" \notin DOMAIN json

AccountingDate == <<2024, 6, 30>>

\* the stored metadata of the first version (it has no entry for 601000)
StoredMeta ==
    (A606100 :> AccountMeta("fixed_expenses", "Prophet")) @@
    (A707000 :> AccountMeta("revenue", "Prophet"))

InitialCompanyJson(c) ==
    IF c = "RESTO1" THEN
        [company_legal_name |-> "Restaurant 1",
         accounting_up_to_date |-> AccountingDate,
         forecast_versions |->
             << Version("Prophet-v1", PidStored, "Success", StoredMeta),
                Version("Prophet-v2", PidGone, "Success", <<>>),
                Version("Prophet-v3", PidStored, "Success", <<>>),
                Version("Prophet-v4", PidNoCommon, "Success", <<>>) >>]
    ELSE IF c = "RESTO2" THEN
        [company_legal_name |-> "Restaurant 2",
         accounting_up_to_date |-> AccountingDate]
    ELSE NoFile

----------------------------------------------------------------------------
(* Result files: result_saver.py, result_loader.py *)

\* DataFrame.to_csv(): a header line (index name, column labels), then one line
\* per row (row label, cells); a NaN cell is written as an empty field
to_csv(df) ==
    [format |-> "csv",
     header |-> <<df.name>>,
     labels |-> df.columns,
     lines |-> [i \in DOMAIN df.index |->
                   [label |-> df.index[i],
                    fields |-> [j \in DOMAIN df.columns |->
                                   df.val[<<df.index[i], df.columns[j]>>]]]]]

\* pd.read_csv(content, parse_dates=['ds'], index_col='ds'): fails unless the
\* header names a column 'ds'; an empty field is read as NaN
read_csv(content) ==
    IF content.format # "csv" \/ content.header # <<"ds">>
    THEN [exc |-> "ValueError"]
    ELSE LET index == [i \in DOMAIN content.lines |-> content.lines[i].label]
             pos(a) == CHOOSE j \in DOMAIN content.labels : content.labels[j] = a
             row(d) == CHOOSE i \in DOMAIN content.lines : content.lines[i].label = d
         IN [exc |-> "None",
             df |-> Frame("ds", index, content.labels,
                          Cells(index, content.labels,
                                LAMBDA d, a : content.lines[row(d)].fields[pos(a)]))]

\* pickle.dumps, zlib.compress, base64.b64encode: each wraps what it is given
pickle_dumps(obj) == [kind |-> "pickled", of |-> obj]
zlib_compress(bytes) == [kind |-> "deflated", of |-> bytes]
b64encode(bytes) == [format |-> "b64", complete |-> TRUE, bytes |-> bytes]

\* a pickled pandas DataFrame, and a pickled object of another type
DataFrameObj(df) == [type |-> "DataFrame", df |-> df]
DictObj == [type |-> "dict"]

\* base64.b64decode(content, validate=True): fails on text that is not base64
\* to its end
b64decode(content) ==
    IF content.format = "b64" /\ content.complete
    THEN [exc |-> "None", bytes |-> content.bytes]
    ELSE [exc |-> "binascii.Error"]

\* zlib.decompress(raw): fails on bytes that are no zlib stream
zlib_decompress(bytes) ==
    IF bytes.kind = "deflated" THEN [exc |-> "None", bytes |-> bytes.of]
    ELSE [exc |-> "zlib.error"]

\* pickle.loads(decompressed): fails on bytes that are no pickle
pickle_loads(bytes) ==
    IF bytes.kind = "pickled" THEN [exc |-> "None", obj |-> bytes.of]
    ELSE [exc |-> "UnpicklingError"]

\* ',' in content[:100]: the header line of a CSV file with a column
HasCommaEarly(content) == content.format = "csv" /\ content.labels # << >>

\* '\n' in content[:50]: the end of the header line of a CSV file
HasNewlineEarly(content) == content.format = "csv"

\* is_likely_base64(content): no comma, no newline at the start, and the first
\* 100 characters decode
is_likely_base64(content) ==
    IF HasCommaEarly(content) THEN FALSE
    ELSE IF HasNewlineEarly(content) THEN FALSE
    ELSE content.format = "b64"

\* the try block of load_gather_result: the DataFrame decoded from the content,
\* or the step that failed
DecodePickled(content) ==
    IF b64decode(content).exc # "None" THEN [exc |-> b64decode(content).exc]
    ELSE IF zlib_decompress(b64decode(content).bytes).exc # "None"
    THEN [exc |-> "zlib.error"]
    ELSE IF pickle_loads(zlib_decompress(b64decode(content).bytes).bytes).exc # "None"
    THEN [exc |-> "UnpicklingError"]
    ELSE IF pickle_loads(zlib_decompress(b64decode(content).bytes).bytes).obj.type # "DataFrame"
    THEN [exc |-> "NotADataFrame"]
    ELSE [exc |-> "None",
          df |-> [pickle_loads(zlib_decompress(b64decode(content).bytes).bytes).obj.df
                      EXCEPT !.name = "ds"]]

\* a faulty variant: the file is always parsed as CSV
load_gather_result_CsvOnly(content) ==
    IF "missing" \in DOMAIN content THEN [exc |-> "FileNotFoundError"]
    ELSE read_csv(content)

\* load_gather_result(path) on what is at the path: FileNotFoundError without a
\* file; the decoded DataFrame if the content looks like base64 and decodes to
\* one; else the CSV parse, whose failure is raised as ValueError
load_gather_result(content) ==
    IF "missing" \in DOMAIN content THEN [exc |-> "FileNotFoundError"]
    ELSE IF is_likely_base64(content) /\ DecodePickled(content).exc = "None"
    THEN DecodePickled(content)
    ELSE read_csv(content)

GATHER == "gather_result"
LOWER == "gather_result_lower"
UPPER == "gather_result_upper"

FileKey(c, pid, fname) == <<c, pid, fname>>

HasFile(files, c, pid, fname) == FileKey(c, pid, fname) \in DOMAIN files

\* path.write_text / to_csv(path): creates or replaces one file
WriteFile(files, c, pid, fname, content) ==
    (FileKey(c, pid, fname) :> content) @@ files

----------------------------------------------------------------------------
(* company.json: result_saver.update_company_metadata *)

DefaultVersionName == "TabPFN-v1.0"
DefaultStatus == "Success"

\* a faulty variant: the new entry replaces the stored list
AppendVersion_Replacing(company_data, forecast_version) == <<forecast_version>>

\* the list update_company_metadata writes back: the stored list (an absent key
\* counts as the empty list) with the new entry appended
AppendVersion(company_data, forecast_version) ==
    LET old == IF "forecast_versions" \in DOMAIN company_data
               THEN company_data.forecast_versions ELSE << >>
    IN Append(old, forecast_version)

\* update_company_metadata on the parsed content of company.json: the content
\* it writes back
update_company_metadata(company_data, process_id, account_metadata, version_name, status) ==
    LET forecast_version == Version(version_name, process_id, status, account_metadata)
    IN ("forecast_versions" :> AppendVersion(company_data, forecast_version)) @@ company_data

----------------------------------------------------------------------------
(* The forecaster: tabpfn_forecaster.py.  The model behind it is an external *)
(* library; of its output only the shape matters here.                       *)

None == << >>
Some(x) == <<x>>

\* the values the external model may predict (one value for every cell)
PredValues == {11}

\* The attributes forecast_lower_df / forecast_upper_df of the object that
\* forecast() returns: "absent" (the ForecastResult dataclass declares neither),
\* "None" or "df" (a result object that carries them, as the test doubles do)
ResultShapes == { [lower |-> "absent", upper |-> "absent"],
                  [lower |-> "None", upper |-> "None"],
                  [lower |-> "df", upper |-> "df"] }

\* the shape TabPFNForecaster.forecast returns
ForecastResultShape == [lower |-> "absent", upper |-> "absent"]

\* the timestamps predicted: the h months after the last month of the context
ForecastDates(data_wide, h) ==
    [i \in 1..h |-> AddMonths(data_wide.index[Len(data_wide.index)], i)]

ConstantFrame(index, columns, k) ==
    Frame("ds", index, columns, Cells(index, columns, LAMBDA d, a : Num(k)))

\* TabPFNForecaster.forecast(data_wide, prediction_length): accounts are the
\* columns of data_wide, forecast_df has one column per account in that order
forecast(data_wide, prediction_length, k, shape) ==
    LET accounts == data_wide.columns
        dates == ForecastDates(data_wide, prediction_length)
    IN [forecast_df |-> ConstantFrame(dates, accounts, k),
        accounts |-> accounts,
        prediction_length |-> prediction_length,
        elapsed_time |-> "elapsed",
        shape |-> shape,
        forecast_lower_df |-> ConstantFrame(dates, accounts, k - 1),
        forecast_upper_df |-> ConstantFrame(dates, accounts, k + 1)]

\* the forecast stored for the run PidStored of RESTO1
StoredForecast ==
    LET dates == <<<<2024, 5, 1>>, <<2024, 6, 1>>>>
        columns == <<A601000, A606100, A707000>>
        v == (A601000 :> 5) @@ (A606100 :> 1) @@ (A707000 :> -12)
    IN Frame("ds", dates, columns, Cells(dates, columns, LAMBDA d, a : Num(v[a])))

----------------------------------------------------------------------------
(* BatchProcessor.process_company: batch_processor.py *)

SUCCESS == <<"Success">>
NO_FORECASTABLE == <<"No forecastable accounts">>

\* f'Error: {str(e)}'
ErrorStatus(msg) == <<"Error: ", msg>>

\* the dict returned by the except clause
ErrorResult(company_id, msg) ==
    [company_id |-> company_id, process_id |-> None,
     status |-> ErrorStatus(msg), accounts_forecasted |-> 0]

\* the dict returned when nothing can be forecast
NoForecastableResult(company_id) ==
    [company_id |-> company_id, process_id |-> None,
     status |-> NO_FORECASTABLE, accounts_forecasted |-> 0]

\* the dict returned at the end of a run
SuccessResult(company_id, process_id, forecast_result) ==
    [company_id |-> company_id, process_id |-> Some(process_id),
     status |-> SUCCESS, accounts_forecasted |-> Len(forecast_result.accounts),
     elapsed_time |-> forecast_result.elapsed_time]

\* the account metadata process_company records for the forecast accounts
AccountMetadata(accounts) ==
    [a \in Range(accounts) |->
        LET account_prefix == IF Len(a) >= 3 THEN Prefix(a, 3) ELSE a
        IN AccountMeta(IF StartsWith(account_prefix, <<7>>) THEN "revenue" ELSE "expense",
                       "TabPFN")]

\* which saver the run calls for a forecast result: "AttributeError" when the
\* test reads an attribute the result does not have
SaverFor(shape) ==
    IF shape.lower = "absent" THEN "AttributeError"
    ELSE IF shape.lower = "None" THEN "save_forecast_result"
    ELSE IF shape.upper = "absent" THEN "AttributeError"
    ELSE IF shape.upper = "None" THEN "save_forecast_result"
    ELSE "save_forecast_result_with_ci"

Unset == << >>

\* failed: the step whose exception ended the run ("none" while none has)
IdleRun == [company_id |-> "", caller |-> "", accounting_date |-> Unset,
            fecs |-> Unset, monthly_totals |-> Unset, preprocessing |-> Unset,
            forecast_result |-> Unset, process_id |-> None, result |-> Unset,
            failed |-> "none"]

IdleBatch == [company_ids |-> << >>, i |-> 0, results |-> << >>]

Snapshot == [companyJson |-> companyJson, processDirs |-> processDirs,
             resultFiles |-> resultFiles]

NoSnapshot == [companyJson |-> << >>, processDirs |-> {}, resultFiles |-> << >>]

InRun == pc \in {"pc_info", "pc_load", "pc_monthly", "pc_preprocess", "pc_check",
                 "pc_forecast", "pc_save", "pc_save_lower", "pc_save_upper",
                 "pc_meta", "pc_return"}

\* entering process_company(company_id)
StartRun(company_id, caller) ==
    /\ run' = [IdleRun EXCEPT !.company_id = company_id, !.caller = caller]
    /\ calls' = << >>
    /\ before' = Snapshot
    /\ pc' = "pc_info"

\* a faulty variant: the except clause catches ValueError only
CaughtByExcept_ValueErrorOnly(exc_type) == exc_type = "ValueError"

\* the exception classes `except Exception` catches (every class the pipeline
\* raises derives from Exception)
CaughtByExcept(exc_type) ==
    exc_type \in {"Exception", "FileNotFoundError", "ValueError", "AttributeError",
                  "KeyError", "OSError"}

\* step `step` raises exc_type(msg): the except clause builds the error dict;
\* an exception it does not catch leaves process_company
Raise(step, exc_type, msg) ==
    IF CaughtByExcept(exc_type)
    THEN /\ run' = [run EXCEPT !.result = ErrorResult(run.company_id, msg),
                               !.failed = step]
         /\ pc' = "pc_return"
    ELSE /\ run' = [run EXCEPT !.failed = step]
         /\ pc' = "crashed"

\* a faulty variant: the early return tests the filtered columns instead
NothingForecastable_NoColumns(preprocessing) ==
    Len(preprocessing.filtered_data_wide_format.columns) = 0

\* this step fails: the file system, a malformed ledger, or the forecaster
Fault == nFaults < MaxFaults /\ nFaults' = nFaults + 1

\* the test of the early return: len(forecastable_accounts) == 0
NothingForecastable(preprocessing) == Len(preprocessing.forecastable_accounts) = 0

\* a faulty variant: the metadata update follows the first file at once
AfterGather_StraightToMetadata(saver) == "pc_meta"

\* where the run goes once gather_result is written: the other two files of
\* save_forecast_result_with_ci, or straight to the metadata update
AfterGather(saver) ==
    IF saver = "save_forecast_result_with_ci" THEN "pc_save_lower" ELSE "pc_meta"

\* a faulty variant: only successful results are collected
AppendResult_SuccessOnly(results, result) ==
    IF result.status = SUCCESS THEN Append(results, result) ELSE results

\* results.append(result)
AppendResult(results, result) == Append(results, result)

\* a direct call of process_company
ProcessCompanyCall(c) ==
    /\ pc = "idle"
    /\ nApi < MaxApiCalls
    /\ nApi' = nApi + 1
    /\ StartRun(c, "direct")
    /\ UNCHANGED <<companyJson, processDirs, resultFiles, batch, nUuid, nFaults>>

\* get_company_info and the accounting date
GetCompanyInfo ==
    /\ pc = "pc_info"
    /\ \/ /\ ~Exists(companyJson[run.company_id])
          /\ Raise("get_company_info", "FileNotFoundError", "company.json not found")
          /\ UNCHANGED calls
       \/ /\ Exists(companyJson[run.company_id])
          /\ run' = [run EXCEPT !.accounting_date =
                         companyJson[run.company_id].accounting_up_to_date]
          /\ pc' = "pc_load"
          /\ UNCHANGED calls
    /\ UNCHANGED <<companyJson, processDirs, resultFiles, batch, nUuid, nApi, nFaults, before>>

\* load_fecs(train_test_split=True)
LoadFecs ==
    /\ pc = "pc_load"
    /\ \/ /\ IF HasFecFiles(run.company_id)
             THEN /\ run' = [run EXCEPT !.fecs =
                                 load_fecs(formatage(FecRows(run.company_id)),
                                           run.accounting_date, ForecastHorizon)]
                  /\ pc' = "pc_monthly"
             ELSE Raise("load_fecs", "ValueError", "No FEC files found in folder")
          /\ UNCHANGED nFaults
       \/ /\ Fault
          /\ Raise("load_fecs", "OSError", "ledger file unreadable")
    /\ UNCHANGED <<companyJson, processDirs, resultFiles, batch, calls, nUuid, nApi, before>>

\* fec_to_monthly_totals(fecs_train)
MonthlyTotals ==
    /\ pc = "pc_monthly"
    /\ \/ /\ run' = [run EXCEPT !.monthly_totals = fec_to_monthly_totals(run.fecs.train),
                                !.fecs = Unset]
          /\ pc' = "pc_preprocess"
          /\ UNCHANGED nFaults
       \/ /\ Fault
          /\ Raise("fec_to_monthly_totals", "KeyError", "monthly aggregation failed")
    /\ UNCHANGED <<companyJson, processDirs, resultFiles, batch, calls, nUuid, nApi, before>>

\* preprocess_data with the configured defaults
Preprocess ==
    /\ pc = "pc_preprocess"
    /\ \/ /\ run' = [run EXCEPT !.preprocessing =
                         preprocess_data(run.monthly_totals, run.accounting_date,
                                         load_classification_charges,
                                         USE_COVID_DUMMIES, ACTIVE_ACCOUNT_WINDOW_MONTHS,
                                         REPLACE_ZEROS_WITH_NAN),
                                !.monthly_totals = Unset]
          /\ pc' = "pc_check"
          /\ UNCHANGED nFaults
       \/ /\ Fault
          /\ Raise("preprocess_data", "Exception", "preprocessing failed")
    /\ UNCHANGED <<companyJson, processDirs, resultFiles, batch, calls, nUuid, nApi, before>>

\* the early return when no account is forecastable
CheckForecastable ==
    /\ pc = "pc_check"
    /\ IF NothingForecastable(run.preprocessing)
       THEN /\ run' = [run EXCEPT !.result = NoForecastableResult(run.company_id)]
            /\ pc' = "pc_return"
       ELSE /\ pc' = "pc_forecast"
            /\ UNCHANGED run
    /\ UNCHANGED <<companyJson, processDirs, resultFiles, batch, calls, nUuid, nApi, nFaults,
                   before>>

\* a faulty variant: the version record is appended before anything is saved
AfterForecast_MetadataFirst == "pc_meta"

\* the step that follows the forecast: the result files are saved
AfterForecast == "pc_save"

\* self.forecaster.forecast(...), then process_id = str(uuid.uuid4())
Forecast ==
    /\ pc = "pc_forecast"
    /\ calls' = Append(calls, "forecast")
    /\ \/ /\ \E k \in PredValues, shape \in ResultShapes :
                run' = [run EXCEPT
                          !.forecast_result =
                              forecast(run.preprocessing.filtered_data_wide_format,
                                       ForecastHorizon, k, shape),
                          !.process_id = Some(nUuid + 1)]
          /\ nUuid' = nUuid + 1
          /\ pc' = AfterForecast
          /\ UNCHANGED nFaults
       \/ /\ Fault
          /\ Raise("forecast", "Exception", "forecast failed")
          /\ UNCHANGED nUuid
    /\ UNCHANGED <<companyJson, processDirs, resultFiles, batch, nApi, before>>


RunPid == run.process_id[1]

\* process_folder.mkdir(parents=True, exist_ok=True)
Mkdir(dirs, c, pid) == dirs \cup {<<c, pid>>}

\* The save step.  The branch test reads forecast_lower_df / forecast_upper_df;
\* then save_forecast_result or save_forecast_result_with_ci creates the
\* process directory and writes gather_result (the median forecast).
SaveResult ==
    /\ pc = "pc_save"
    /\ LET saver == SaverFor(run.forecast_result.shape)
           c == run.company_id
       IN IF saver = "AttributeError"
          THEN /\ Raise("save_branch", "AttributeError",
                       "'ForecastResult' object has no attribute 'forecast_lower_df'")
               /\ UNCHANGED <<calls, processDirs, resultFiles, nFaults>>
          ELSE /\ calls' = Append(calls, saver)
               /\ \/ /\ processDirs' = Mkdir(processDirs, c, RunPid)
                     /\ resultFiles' = WriteFile(resultFiles, c, RunPid, GATHER,
                                                 to_csv(run.forecast_result.forecast_df))
                     /\ pc' = AfterGather(saver)
                     /\ UNCHANGED <<run, nFaults>>
                  \/ /\ Fault
                     /\ processDirs' = Mkdir(processDirs, c, RunPid)
                     /\ Raise("save", "OSError", "cannot write gather_result")
                     /\ UNCHANGED resultFiles
    /\ UNCHANGED <<companyJson, batch, nUuid, nApi, before>>

\* save_forecast_result_with_ci, second file
SaveLower ==
    /\ pc = "pc_save_lower"
    /\ \/ /\ resultFiles' = WriteFile(resultFiles, run.company_id, RunPid, LOWER,
                                      to_csv(run.forecast_result.forecast_lower_df))
          /\ pc' = "pc_save_upper"
          /\ UNCHANGED <<run, nFaults>>
       \/ /\ Fault
          /\ Raise("save", "OSError", "cannot write gather_result_lower")
          /\ UNCHANGED resultFiles
    /\ UNCHANGED <<companyJson, processDirs, batch, calls, nUuid, nApi, before>>

\* save_forecast_result_with_ci, third file
SaveUpper ==
    /\ pc = "pc_save_upper"
    /\ \/ /\ resultFiles' = WriteFile(resultFiles, run.company_id, RunPid, UPPER,
                                      to_csv(run.forecast_result.forecast_upper_df))
          /\ pc' = "pc_meta"
          /\ UNCHANGED <<run, nFaults>>
       \/ /\ Fault
          /\ Raise("save", "OSError", "cannot write gather_result_upper")
          /\ UNCHANGED resultFiles
    /\ UNCHANGED <<companyJson, processDirs, batch, calls, nUuid, nApi, before>>

\* a faulty variant: a failing update has already written the new version
UpdateMetadata_WritesThenFails ==
    /\ pc = "pc_meta"
    /\ calls' = Append(calls, "update_company_metadata")
    /\ Exists(companyJson[run.company_id])
    /\ companyJson' = [companyJson EXCEPT ![run.company_id] =
                          update_company_metadata(@, RunPid,
                              AccountMetadata(run.forecast_result.accounts),
                              DefaultVersionName, DefaultStatus)]
    /\ Fault
    /\ Raise("update_company_metadata", "OSError", "cannot update company.json")
    /\ UNCHANGED <<processDirs, resultFiles, batch, nUuid, nApi, before>>

\* the account metadata, update_company_metadata, and the success dict
UpdateMetadata ==
    /\ pc = "pc_meta"
    /\ calls' = Append(calls, "update_company_metadata")
    /\ LET c == run.company_id
           account_metadata == AccountMetadata(run.forecast_result.accounts)
       IN \/ /\ Exists(companyJson[c])
             /\ companyJson' = [companyJson EXCEPT ![c] =
                                   update_company_metadata(@, RunPid, account_metadata,
                                                           DefaultVersionName, DefaultStatus)]
             /\ run' = [run EXCEPT !.result =
                           SuccessResult(c, RunPid, run.forecast_result)]
             /\ pc' = "pc_return"
             /\ UNCHANGED nFaults
          \/ /\ Fault
             /\ Raise("update_company_metadata", "OSError", "cannot update company.json")
             /\ UNCHANGED companyJson
    /\ UNCHANGED <<processDirs, resultFiles, batch, nUuid, nApi, before>>

\* process_company returns: to the direct caller, or into the loop of
\* process_companies, which appends the dict to results and logs it
ReturnFromRun ==
    /\ pc = "pc_return"
    /\ IF run.caller = "direct"
       THEN /\ pc' = "idle"
            /\ UNCHANGED batch
       ELSE \* a successful result is logged with its elapsed_time
            IF run.result.status = SUCCESS /\ "elapsed_time" \notin DOMAIN run.result
            THEN /\ pc' = "crashed"
                 /\ UNCHANGED batch
            ELSE /\ batch' = [batch EXCEPT !.results = AppendResult(@, run.result),
                                          !.i = @ + 1]
                 /\ pc' = "b_loop"
    /\ run' = IdleRun
    /\ calls' = << >>
    /\ before' = NoSnapshot
    /\ UNCHANGED <<companyJson, processDirs, resultFiles, nUuid, nApi, nFaults>>

----------------------------------------------------------------------------
(* BatchProcessor.process_companies *)

\* the lists over S of length at most n
RECURSIVE SeqsUpTo(_, _)
SeqsUpTo(S, n) ==
    IF n = 0 THEN {<< >>}
    ELSE LET shorter == SeqsUpTo(S, n - 1)
         IN shorter \cup {Append(q, x) : q \in shorter, x \in S}

ProcessCompaniesCall(company_ids) ==
    /\ pc = "idle"
    /\ nApi + Len(company_ids) <= MaxApiCalls
    /\ nApi' = nApi + Len(company_ids)
    /\ batch' = [company_ids |-> company_ids, i |-> 1, results |-> << >>]
    /\ pc' = "b_loop"
    /\ UNCHANGED <<companyJson, processDirs, resultFiles, run, calls, nUuid, nFaults,
                   before>>

\* the loop head: the next company is processed
BatchStep ==
    /\ pc = "b_loop"
    /\ batch.i <= Len(batch.company_ids)
    /\ StartRun(batch.company_ids[batch.i], "batch")
    /\ UNCHANGED <<companyJson, processDirs, resultFiles, batch, nUuid, nApi, nFaults>>

\* the loop is over: results is returned
BatchReturn ==
    /\ pc = "b_loop"
    /\ batch.i > Len(batch.company_ids)
    /\ batch' = IdleBatch
    /\ pc' = "idle"
    /\ UNCHANGED <<companyJson, processDirs, resultFiles, run, calls, nUuid, nApi, nFaults, before>>

----------------------------------------------------------------------------
(* A direct call of update_company_metadata *)

\* the argument lists of the direct calls
ApiArgs ==
    { [process_id |-> 200, account_metadata |-> (A707000 :> AccountMeta("revenue", "TabPFN")),
       version_name |-> "custom", status |-> "Failed"] }

\* update_company_metadata(c, ...) called directly; it raises FileNotFoundError
\* (and writes nothing) when company.json does not exist
UpdateCompanyMetadataCall(c, args) ==
    /\ pc = "idle"
    /\ nApi < MaxApiCalls
    /\ nApi' = nApi + 1
    /\ before' = Snapshot
    /\ run' = [IdleRun EXCEPT !.company_id = c, !.caller = "direct",
                              !.result = IF Exists(companyJson[c])
                                         THEN [exc |-> "None", args |-> args]
                                         ELSE [exc |-> "FileNotFoundError", args |-> args]]
    /\ companyJson' = IF Exists(companyJson[c])
                      THEN [companyJson EXCEPT ![c] =
                               update_company_metadata(@, args.process_id, args.account_metadata,
                                                       args.version_name, args.status)]
                      ELSE companyJson
    /\ pc' = "u_return"
    /\ UNCHANGED <<processDirs, resultFiles, batch, calls, nUuid, nFaults>>

\* a call that is not part of a run returns to its caller
ReturnFromCall ==
    /\ pc \in {"u_return", "m_return"}
    /\ pc' = "idle"
    /\ run' = IdleRun
    /\ before' = NoSnapshot
    /\ UNCHANGED <<companyJson, processDirs, resultFiles, batch, calls, nUuid, nApi, nFaults>>

----------------------------------------------------------------------------
(* Metric values.  The cells of the tables are integers, so every metric is *)
(* a rational number or the square root of one; a value is kept exactly, as *)
(* [kind, sq, val]: val = <<n, d>> is the fraction n/d in lowest terms, and *)
(* sq tells that the value is the square root of that fraction.             *)

RECURSIVE GCD(_, _)
GCD(a, b) == IF b = 0 THEN a ELSE GCD(b, a % b)

\* the fraction n/d (d # 0) in lowest terms with a positive denominator
Rat(n, d) ==
    LET g == GCD(Abs(n), Abs(d))
    IN IF d < 0 THEN <<(-n) \div g, (-d) \div g>> ELSE <<n \div g, d \div g>>

RatAdd(x, y) == Rat(x[1] * y[2] + y[1] * x[2], x[2] * y[2])
RatMul(x, y) == Rat(x[1] * y[1], x[2] * y[2])
RatDiv(x, y) == Rat(x[1] * y[2], x[2] * y[1])

RECURSIVE RatSum(_)
RatSum(s) == IF s = <<>> THEN <<0, 1>> ELSE RatAdd(Head(s), RatSum(Tail(s)))

\* np.nan as a metric value
MetricNaN == [kind |-> "nan"]
\* the number val
MetricNum(val) == [kind |-> "num", sq |-> FALSE, val |-> val]
\* the number val ** 0.5
MetricSqrt(val) == [kind |-> "num", sq |-> TRUE, val |-> val]

\* the rows where both columns hold a number (NaN propagates through x - y)
BothPresent(x, y) == {i \in DOMAIN x : ~IsNaN(x[i]) /\ ~IsNaN(y[i])}

\* Series.mean() of the terms at the rows of S (NaN rows are skipped; the mean
\* of nothing is NaN)
MeanOver(S, terms) ==
    IF S = {} THEN MetricNaN
    ELSE MetricNum(RatDiv(RatSum([i \in DOMAIN terms |->
                                     IF i \in S THEN terms[i] ELSE <<0, 1>>]),
                          <<Cardinality(S), 1>>))

\* Series.sum() of the terms at the rows of S (NaN rows count as 0)
SumOver(S, terms) ==
    RatSum([i \in DOMAIN terms |-> IF i \in S THEN terms[i] ELSE <<0, 1>>])

Times100(m) == IF m.kind = "nan" THEN m ELSE [m EXCEPT !.val = RatMul(@, <<100, 1>>)]

\* numerator / denominator.replace(0, np.nan), for two sums
Ratio(num, den) == IF den[1] = 0 THEN MetricNaN ELSE MetricNum(RatDiv(num, den))

\* compute_mape_df, one column: mean of |f - a| / |a| over the rows with
\* |a| > epsilon, times 100
compute_mape(a, f) ==
    LET S == {i \in BothPresent(a, f) : a[i][1] # 0}
    IN Times100(MeanOver(S, [i \in DOMAIN a |->
           IF i \in S THEN Rat(Abs(f[i][1] - a[i][1]), Abs(a[i][1])) ELSE <<0, 1>>]))

\* compute_smape_df, one column: mean of |f - a| / ((|a| + |f|) / 2), times 100
compute_smape(a, f) ==
    LET S == {i \in BothPresent(a, f) : Abs(a[i][1]) + Abs(f[i][1]) # 0}
    IN Times100(MeanOver(S, [i \in DOMAIN a |->
           IF i \in S THEN Rat(2 * Abs(f[i][1] - a[i][1]), Abs(a[i][1]) + Abs(f[i][1]))
           ELSE <<0, 1>>]))

\* ((x - y) ** 2).mean(axis=0), one column
MeanSquaredError(x, y) ==
    LET S == BothPresent(x, y)
    IN MeanOver(S, [i \in DOMAIN x |->
           IF i \in S THEN <<(x[i][1] - y[i][1]) * (x[i][1] - y[i][1]), 1>> ELSE <<0, 1>>])

\* a faulty variant: without the final .where(numerator != 0, 0)
ScaledRoot_NoWhere(numerator, denominator) ==
    IF numerator.kind = "nan" \/ denominator.kind = "nan" THEN MetricNaN
    ELSE IF denominator.val[1] = 0 THEN MetricNaN
    ELSE MetricSqrt(RatDiv(numerator.val, denominator.val))

\* (numerator ** 0.5) / (denominator ** 0.5) with denominator.replace(0, nan),
\* then .where(numerator != 0, 0): a zero numerator gives 0 whatever the rest
ScaledRoot(numerator, denominator) ==
    IF numerator.kind = "num" /\ numerator.val[1] = 0 THEN MetricNum(<<0, 1>>)
    ELSE IF numerator.kind = "nan" \/ denominator.kind = "nan" THEN MetricNaN
    ELSE IF denominator.val[1] = 0 THEN MetricNaN
    ELSE MetricSqrt(RatDiv(numerator.val, denominator.val))

\* compute_rmsse_df, one column
compute_rmsse(a, f, naive) ==
    ScaledRoot(MeanSquaredError(f, a), MeanSquaredError(naive, a))

\* actual.max() - actual.min(), squared (NaN when the column holds no number)
SquaredRange(a) ==
    LET present == {a[i][1] : i \in {j \in DOMAIN a : ~IsNaN(a[j])}}
        hi == CHOOSE x \in present : \A y \in present : y <= x
        lo == CHOOSE x \in present : \A y \in present : x <= y
    IN IF present = {} THEN MetricNaN ELSE MetricNum(<<(hi - lo) * (hi - lo), 1>>)

\* compute_nrmse_df, one column: (mse ** 0.5) / (max - min)
compute_nrmse(a, f) == ScaledRoot(MeanSquaredError(f, a), SquaredRange(a))

\* (forecast - actual).abs().sum(axis=0), one column
AbsErrorSum(a, f) ==
    SumOver(BothPresent(a, f),
            [i \in DOMAIN a |-> IF i \in BothPresent(a, f)
                                THEN <<Abs(f[i][1] - a[i][1]), 1>> ELSE <<0, 1>>])

\* actual.abs().sum(axis=0), one column
AbsSum(a) ==
    SumOver(DOMAIN a, [i \in DOMAIN a |-> IF IsNaN(a[i]) THEN <<0, 1>> ELSE <<Abs(a[i][1]), 1>>])

\* compute_wape_df, one column
compute_wape(a, f) == Times100(Ratio(AbsErrorSum(a, f), AbsSum(a)))

\* compute_swape_df, one column: the denominator sums (|f| + |a|) / 2
compute_swape(a, f) ==
    Times100(Ratio(AbsErrorSum(a, f),
                   SumOver(BothPresent(a, f),
                           [i \in DOMAIN a |-> IF i \in BothPresent(a, f)
                                               THEN Rat(Abs(f[i][1]) + Abs(a[i][1]), 2)
                                               ELSE <<0, 1>>])))

\* compute_pbias_df, one column: |sum(f - a)| / sum|a|, times 100
compute_pbias(a, f) ==
    LET bias == SumOver(BothPresent(a, f),
                        [i \in DOMAIN a |-> IF i \in BothPresent(a, f)
                                            THEN <<f[i][1] - a[i][1], 1>> ELSE <<0, 1>>])
    IN Times100(Ratio(<<Abs(bias[1]), bias[2]>>, AbsSum(a)))

\* compute_all_metrics on three frames with the same rows and columns: metric
\* name -> (column -> value)
compute_all_metrics(actual_df, forecast_df, seasonal_naive_df) ==
    LET cols == Range(forecast_df.columns)
    IN [MAPE  |-> [c \in cols |-> compute_mape(Column(actual_df, c), Column(forecast_df, c))],
        SMAPE |-> [c \in cols |-> compute_smape(Column(actual_df, c), Column(forecast_df, c))],
        NRMSE |-> [c \in cols |-> compute_nrmse(Column(actual_df, c), Column(forecast_df, c))],
        WAPE  |-> [c \in cols |-> compute_wape(Column(actual_df, c), Column(forecast_df, c))],
        SWAPE |-> [c \in cols |-> compute_swape(Column(actual_df, c), Column(forecast_df, c))],
        PBIAS |-> [c \in cols |-> compute_pbias(Column(actual_df, c), Column(forecast_df, c))],
        RMSSE |-> [c \in cols |-> compute_rmsse(Column(actual_df, c), Column(forecast_df, c),
                                                Column(seasonal_naive_df, c))]]

\* a faulty variant: float(value) without the pd.isna test
FloatOrNone_NoNaNTest(value) ==
    IF value.kind = "nan" THEN value ELSE [value EXCEPT !.kind = "float"]

\* None if pd.isna(value) else float(value)
FloatOrNone(value) ==
    IF value.kind = "nan" THEN [kind |-> "None"] ELSE [value EXCEPT !.kind = "float"]

----------------------------------------------------------------------------
(* generate_seasonal_naive: seasonal_naive.py *)

\* the frame with every row label moved h months forward
ShiftIndex(df, h) ==
    LET index == [i \in DOMAIN df.index |-> AddMonths(df.index[i], h)]
    IN Frame(df.name, index, df.columns,
             Tabulated([k \in Range(index) \X Range(df.columns) |->
                           df.val[<<AddMonths(k[1], -h), k[2]>>]]))

\* df.iloc[-n:]: the rows from position len - n on when n > 0 (all of them when
\* n exceeds len); -0 is 0, so n = 0 gives every row; n < 0 skips -n rows
ILocLast(df, n) ==
    LET len == Len(df.index)
        start == IF n > 0 THEN (IF len > n THEN len - n ELSE 0)
                 ELSE (IF -n > len THEN len ELSE -n)
    IN SelectRows(df, SubSeq(df.index, start + 1, len))

\* generate_seasonal_naive(historical_df, forecast_horizon): ValueError when
\* the history has fewer rows than the horizon; else the rows iloc[-h:], dated h
\* months later
generate_seasonal_naive(historical_df, h) ==
    IF Len(historical_df.index) < h
    THEN [exc |-> "ValueError"]
    ELSE [exc |-> "None", df |-> ShiftIndex(ILocLast(historical_df, h), h)]

----------------------------------------------------------------------------
(* Aggregated metrics: aggregation.py *)

\* df[cols].sum(axis=1) as a one-column frame named name (NaN cells count as 0)
SumColumns(df, cols, name) ==
    Frame(df.name, df.index, <<name>>,
          Tabulated([k \in Range(df.index) \X {name} |->
                        Num(SumSeq([j \in DOMAIN cols |->
                                       IF IsNaN(df.val[<<k[1], cols[j]>>]) THEN 0
                                       ELSE df.val[<<k[1], cols[j]>>][1]]))]))

\* the columns whose label starts with digit
ColumnsStartingWith(df, digit) ==
    SelectIn(df.columns, {a \in Range(df.columns) : StartsWith(a, <<digit>>)})

\* compute_net_income_series(df).to_frame('net_income'): revenue (7xx) minus
\* expenses (6xx) per row.  With neither kind of column the function returns
\* the integer 0, and .to_frame raises AttributeError.
compute_net_income_series(df) ==
    LET revenue == SumColumns(df, ColumnsStartingWith(df, 7), "net_income")
        expenses == SumColumns(df, ColumnsStartingWith(df, 6), "net_income")
    IN IF ColumnsStartingWith(df, 7) = <<>> /\ ColumnsStartingWith(df, 6) = <<>>
       THEN [exc |-> "AttributeError"]
       ELSE [exc |-> "None",
             df |-> Frame(df.name, df.index, <<"net_income">>,
                          Tabulated([k \in Range(df.index) \X {"net_income"} |->
                                        Num(revenue.val[k][1] - expenses.val[k][1])]))]

\* meta.get(key, 'unknown')
MetaGet(meta, key) == IF key \in DOMAIN meta THEN meta[key] ELSE "unknown"

\* the accounts of account_metadata that are columns of df and whose `key`
\* ('account_type' or 'forecast_type') is `type`, in column order
AccountsOfType(df, account_metadata, key, type) ==
    SelectIn(df.columns, {a \in DOMAIN account_metadata \cap Range(df.columns) :
                              MetaGet(account_metadata[a], key) = type})

\* the values of `key` among the accounts of account_metadata that are columns
TypesPresent(df, account_metadata, key) ==
    {MetaGet(account_metadata[a], key) : a \in DOMAIN account_metadata \cap Range(df.columns)}

\* the metrics of one aggregated series, as {metric: float or None}
SeriesMetrics(actual_df, forecast_df, naive_df, name) ==
    LET m == compute_all_metrics(actual_df, forecast_df, naive_df)
    IN [k \in DOMAIN m |-> FloatOrNone(m[k][name])]

\* the metrics of the accounts of one type, summed per row
TypeMetrics(actual_df, forecast_df, naive_df, account_metadata, key, type) ==
    SeriesMetrics(
        SumColumns(actual_df, AccountsOfType(actual_df, account_metadata, key, type), type),
        SumColumns(forecast_df, AccountsOfType(forecast_df, account_metadata, key, type), type),
        SumColumns(naive_df, AccountsOfType(naive_df, account_metadata, key, type), type),
        type)

\* compute_aggregated_metrics(actual_df, forecast_df, seasonal_naive_df,
\* account_metadata)
compute_aggregated_metrics(actual_df, forecast_df, naive_df, account_metadata) ==
    IF compute_net_income_series(actual_df).exc # "None"
    THEN [exc |-> compute_net_income_series(actual_df).exc]
    ELSE [exc |-> "None",
          value |->
            [net_income |-> SeriesMetrics(compute_net_income_series(actual_df).df,
                                          compute_net_income_series(forecast_df).df,
                                          compute_net_income_series(naive_df).df,
                                          "net_income"),
             account_type |->
                [t \in TypesPresent(actual_df, account_metadata, "account_type") |->
                    TypeMetrics(actual_df, forecast_df, naive_df, account_metadata,
                                "account_type", t)],
             forecast_type |->
                [t \in TypesPresent(forecast_df, account_metadata, "forecast_type") |->
                    TypeMetrics(actual_df, forecast_df, naive_df, account_metadata,
                                "forecast_type", t)]]]

----------------------------------------------------------------------------
(* compute_metrics_for_company: metrics/pipeline.py *)

\* company_data.get('forecast_versions', [])
StoredVersions(company_data) ==
    IF "forecast_versions" \in DOMAIN company_data
    THEN company_data.forecast_versions ELSE << >>

\* a faulty variant: the first stored version, whatever its process_id
FirstVersionWith_AnyVersion(versions, process_id) == IF versions = << >> THEN 0 ELSE 1

\* the position of the first version with this process_id (0 when none has it)
FirstVersionWith(versions, process_id) ==
    IF \E i \in DOMAIN versions : versions[i].process_id = process_id
    THEN CHOOSE i \in DOMAIN versions :
             /\ versions[i].process_id = process_id
             /\ \A j \in 1..(i - 1) : versions[j].process_id # process_id
    ELSE 0

\* forecast_version.get('meta_data', {})
MetaDataOf(version) == IF "meta_data" \in DOMAIN version THEN version.meta_data ELSE << >>

\* the pivot of monthly totals with NaN filled by 0 and the index named 'ds'
PivotFilled(monthly) == [FillNa(PivotMonthly(monthly), Num(0)) EXCEPT !.name = "ds"]

\* forecast_df.columns.intersection(actual_df.columns), in forecast order
CommonAccounts(forecast_df, actual_df) ==
    SelectIn(forecast_df.columns, Range(actual_df.columns))

\* the three aligned frames of steps 3 and 4: forecast and actuals restricted to
\* the common accounts, actuals and baseline re-indexed on the forecast dates
AlignedFrames(forecast_df, fecs, h) ==
    LET actual_df == PivotFilled(fec_to_monthly_totals(fecs.test))
        common_accounts == CommonAccounts(forecast_df, actual_df)
        historical_df == ReindexColumns(PivotFilled(fec_to_monthly_totals(fecs.train)),
                                        common_accounts, Num(0))
        naive == generate_seasonal_naive(historical_df, h)
    IN [forecast_df |-> SelectColumns(forecast_df, common_accounts),
        actual_df |-> ReindexRows(SelectColumns(actual_df, common_accounts),
                                  forecast_df.index, Num(0)),
        exc |-> naive.exc,
        seasonal_naive_df |-> IF naive.exc = "None"
                              THEN ReindexRows(naive.df, forecast_df.index, Num(0))
                              ELSE EmptyFrame("ds")]

\* the per-account dict: account -> {'metrics': {metric: float or None}}
AccountMetrics(frames) ==
    LET all == compute_all_metrics(frames.actual_df, frames.forecast_df,
                                   frames.seasonal_naive_df)
    IN [a \in Range(frames.forecast_df.columns) |->
           [metrics |-> [m \in DOMAIN all |-> FloatOrNone(all[m][a])]]]

\* steps 5 and 6 on the aligned frames
MetricsOf(frames, account_metadata) ==
    LET aggregated == compute_aggregated_metrics(frames.actual_df, frames.forecast_df,
                                                 frames.seasonal_naive_df, account_metadata)
    IN IF frames.exc # "None" THEN [exc |-> frames.exc]
       ELSE IF aggregated.exc # "None" THEN [exc |-> aggregated.exc]
       ELSE [exc |-> "None",
             account_metrics |-> AccountMetrics(frames),
             aggregated_metrics |-> aggregated.value]

\* compute_metrics_for_company up to (not including) the update of
\* company.json: the exception raised, or the two dicts it returns
compute_metrics(company_data, files, company_id, process_id, h) ==
    IF ~Exists(company_data) THEN [exc |-> "FileNotFoundError"]
    ELSE IF FirstVersionWith(StoredVersions(company_data), process_id) = 0
    THEN [exc |-> "ValueError"]
    ELSE IF ~HasFile(files, company_id, process_id, GATHER)
    THEN [exc |-> "FileNotFoundError"]
    ELSE IF load_gather_result(files[FileKey(company_id, process_id, GATHER)]).exc # "None"
    THEN [exc |-> load_gather_result(files[FileKey(company_id, process_id, GATHER)]).exc]
    ELSE MetricsOf(
            AlignedFrames(load_gather_result(files[FileKey(company_id, process_id, GATHER)]).df,
                          load_fecs(formatage(FecRows(company_id)),
                                    company_data.accounting_up_to_date, h),
                          h),
            MetaDataOf(StoredVersions(company_data)
                           [FirstVersionWith(StoredVersions(company_data), process_id)]))

\* version['meta_data'] after the loop over account_metrics: each account gets
\* its 'metrics' (an account not in meta_data is added with that key alone)
MetaDataWithMetrics(meta_data, account_metrics) ==
    [a \in DOMAIN meta_data \cup DOMAIN account_metrics |->
        IF a \notin DOMAIN account_metrics THEN meta_data[a]
        ELSE IF a \in DOMAIN meta_data
             THEN ("metrics" :> account_metrics[a].metrics) @@ meta_data[a]
             ELSE [metrics |-> account_metrics[a].metrics]]

\* the version the update writes back
VersionWithMetrics(version, account_metrics, aggregated_metrics) ==
    ("meta_data" :> MetaDataWithMetrics(MetaDataOf(version), account_metrics)) @@
    ("metrics" :> aggregated_metrics) @@ version

\* a faulty variant: the loop does not stop at the first match, so the last
\* version with the process_id is the one changed
VersionToUpdate_LastMatch(versions, process_id) ==
    IF \E i \in DOMAIN versions : versions[i].process_id = process_id
    THEN CHOOSE i \in DOMAIN versions :
             /\ versions[i].process_id = process_id
             /\ \A j \in (i + 1)..Len(versions) : versions[j].process_id # process_id
    ELSE 0

\* the position of the version the update changes
VersionToUpdate(versions, process_id) == FirstVersionWith(versions, process_id)

\* _update_company_json_with_metrics on the parsed content of company.json
update_company_json_with_metrics(company_data, process_id, account_metrics, aggregated_metrics) ==
    LET i == VersionToUpdate(StoredVersions(company_data), process_id)
    IN IF i = 0 THEN company_data
       ELSE [company_data EXCEPT !.forecast_versions[i] =
                VersionWithMetrics(@, account_metrics, aggregated_metrics)]

\* the (company, process id) pairs the metrics are asked for: every process id
\* of the company with forecasts (stored, or drawn by a run), and one for each
\* other company
MetricsTargets ==
    ({"RESTO1"} \X ({PidStored, PidGone, PidNoCommon} \cup (1..MaxApiCalls))) \cup
    ((CompanyIds \ {"RESTO1"}) \X {PidStored})

\* compute_metrics_for_company(c, process_id, forecast_horizon=ForecastHorizon)
ComputeMetricsCall(c, process_id) ==
    /\ pc = "idle"
    /\ nApi < MaxApiCalls
    /\ nApi' = nApi + 1
    /\ before' = Snapshot
    /\ LET out == compute_metrics(companyJson[c], resultFiles, c, process_id,
                                  ForecastHorizon)
       IN /\ run' = [IdleRun EXCEPT !.company_id = c, !.caller = "direct",
                                    !.process_id = Some(process_id), !.result = out]
          /\ companyJson' =
                IF out.exc = "None"
                THEN [companyJson EXCEPT ![c] =
                         update_company_json_with_metrics(@, process_id, out.account_metrics,
                                                          out.aggregated_metrics)]
                ELSE companyJson
    /\ pc' = "m_return"
    /\ UNCHANGED <<processDirs, resultFiles, batch, calls, nUuid, nFaults>>

----------------------------------------------------------------------------
(* The specification *)

Init ==
    /\ companyJson = [c \in CompanyIds |-> InitialCompanyJson(c)]
    /\ processDirs = {<<"RESTO1", PidStored>>, <<"RESTO1", PidNoCommon>>}
    /\ resultFiles = (FileKey("RESTO1", PidStored, GATHER) :> to_csv(StoredForecast)) @@
                     (FileKey("RESTO1", PidNoCommon, GATHER) :>
                          to_csv(SelectColumns(StoredForecast, <<A606100>>)))
    /\ pc = "idle"
    /\ batch = IdleBatch
    /\ run = IdleRun
    /\ calls = << >>
    /\ nUuid = 0
    /\ nApi = 0
    /\ nFaults = 0
    /\ before = NoSnapshot

Next ==
    \/ \E c \in CompanyIds : ProcessCompanyCall(c)
    \/ GetCompanyInfo
    \/ LoadFecs
    \/ MonthlyTotals
    \/ Preprocess
    \/ CheckForecastable
    \/ Forecast
    \/ SaveResult
    \/ SaveLower
    \/ SaveUpper
    \/ UpdateMetadata
    \/ ReturnFromRun
    \/ \E ids \in SeqsUpTo(CompanyIds, MaxBatch) : ProcessCompaniesCall(ids)
    \/ BatchStep
    \/ BatchReturn
    \/ \E c \in CompanyIds, args \in ApiArgs : UpdateCompanyMetadataCall(c, args)
    \/ \E t \in MetricsTargets : ComputeMetricsCall(t[1], t[2])
    \/ ReturnFromCall

Spec == Init /\ [][Next]_vars

----------------------------------------------------------------------------
(* Properties of process_company, process_companies, update_company_metadata *)

\* the forecast_versions list of a parsed company.json, an absent key read as []
VersionsOf(company_data) ==
    IF "forecast_versions" \in DOMAIN company_data
    THEN company_data.forecast_versions ELSE << >>

\* how many entries of seq equal x
Count(seq, x) == Cardinality({i \in DOMAIN seq : seq[i] = x})

\* the position of the first entry of seq equal to x (0 when there is none)
IndexOf(seq, x) ==
    IF \E i \in DOMAIN seq : seq[i] = x
    THEN CHOOSE i \in DOMAIN seq : seq[i] = x /\ \A j \in 1..(i - 1) : seq[j] # x
    ELSE 0

\* this step is a direct update_company_metadata call that returns normally
DirectUpdateReturns == pc = "idle" /\ pc' = "u_return" /\ run'.result.exc = "None"

\* this step is the update_company_metadata call of a run, returning normally
RunUpdateReturns == pc = "pc_meta" /\ pc' = "pc_return" /\ run'.failed = "none"

\* C1: every update_company_metadata call that returns leaves forecast_versions
\* equal to the list stored before the call (the empty list when the key was
\* absent), entries unchanged and in their order, followed by exactly one new
\* entry holding that call's version_name, process_id, status and meta_data;
\* every other company's file, and every other key of the file, is untouched,
\* and a call that raises writes nothing.
C1_AppendOnly ==
    [][ /\ DirectUpdateReturns =>
            LET c == run'.company_id
                a == run'.result.args
            IN /\ VersionsOf(companyJson'[c]) =
                      VersionsOf(companyJson[c]) \o
                      << [version_name |-> a.version_name, process_id |-> a.process_id,
                          status |-> a.status, meta_data |-> a.account_metadata] >>
               /\ \A k \in DOMAIN companyJson[c] \ {"forecast_versions"} :
                      /\ k \in DOMAIN companyJson'[c]
                      /\ companyJson'[c][k] = companyJson[c][k]
               /\ \A d \in CompanyIds \ {c} : companyJson'[d] = companyJson[d]
        /\ RunUpdateReturns =>
            LET c == run.company_id
                new == VersionsOf(companyJson'[c])
            IN /\ Len(new) = Len(VersionsOf(companyJson[c])) + 1
               /\ SubSeq(new, 1, Len(new) - 1) = VersionsOf(companyJson[c])
               /\ new[Len(new)].version_name = "TabPFN-v1.0"
               /\ new[Len(new)].process_id = run.process_id[1]
               /\ new[Len(new)].status = "Success"
               /\ DOMAIN new[Len(new)].meta_data = Range(run.forecast_result.accounts)
               /\ \A d \in CompanyIds \ {c} : companyJson'[d] = companyJson[d]
        /\ (pc = "idle" /\ pc' = "u_return" /\ run'.result.exc # "None") =>
               companyJson' = companyJson
      ]_vars

\* C1 witness: the second of two direct calls on the company that already had
\* four versions has returned, and the file now lists six
C1_Witness ==
    /\ pc = "u_return"
    /\ nApi = 2
    /\ run.company_id = "RESTO1"
    /\ run.result.exc = "None"
    /\ Len(VersionsOf(companyJson["RESTO1"])) = 6

\* C2: process_company never lets an exception out: whichever step raises, the
\* call reaches its return with a dict holding the company_id, process_id None,
\* accounts_forecasted 0 and a status that starts with "Error".
C2_ErrorsAreReturned ==
    /\ pc # "crashed"
    /\ (InRun /\ run.failed # "none") =>
           /\ pc = "pc_return"
           /\ DOMAIN run.result =
                  {"company_id", "process_id", "status", "accounts_forecasted"}
           /\ run.result.company_id = run.company_id
           /\ run.result.process_id = None
           /\ run.result.accounts_forecasted = 0
           /\ Len(run.result.status) >= 1
           /\ run.result.status[1] = "Error: "

\* C2 witness: a run whose last step, the metadata update, raised is about to
\* return its error dict
C2_Witness ==
    /\ pc = "pc_return"
    /\ run.failed = "update_company_metadata"
    /\ run.result.status[1] = "Error: "

\* C3 (stated as claimed): when company info, ledger loading, preprocessing
\* (with a forecastable account) and forecast() succeeded, forecast() returned
\* the ForecastResult the forecaster builds, and no write failed, the run
\* returns 'Success' with a process_id and accounts_forecasted equal to the
\* number of forecast accounts.
C3_SuccessOnForecastResult ==
    (/\ pc = "pc_return"
     /\ Count(calls, "forecast") = 1
     /\ run.failed \notin {"forecast", "save", "update_company_metadata"}
     /\ run.forecast_result.shape = ForecastResultShape)
    => /\ run.result.status = SUCCESS
       /\ run.result.process_id # None
       /\ run.result.accounts_forecasted = Len(run.forecast_result.accounts)

\* C4: process_companies returns one result per input company id, in input
\* order, each carrying its company id; a company that fails or has nothing to
\* forecast is recorded and the loop goes on to the next one.
C4_OneResultPerCompany ==
    /\ pc # "crashed"
    /\ pc = "b_loop" =>
           /\ Len(batch.results) = batch.i - 1
           /\ \A j \in 1..Len(batch.results) :
                  batch.results[j].company_id = batch.company_ids[j]
    /\ (pc = "b_loop" /\ batch.i > Len(batch.company_ids)) =>
           Len(batch.results) = Len(batch.company_ids)

\* C4 witness: a batch of two is over; its first company failed and its second
\* was forecast successfully
C4_Witness ==
    /\ pc = "b_loop"
    /\ Len(batch.company_ids) = 2
    /\ batch.i = 3
    /\ batch.results[1].status[1] = "Error: "
    /\ batch.results[2].status = SUCCESS

\* C5: when preprocessing finds no forecastable account the run returns status
\* 'No forecastable accounts', process_id None and accounts_forecasted 0, and
\* it has not called the forecaster or a saver, created no directory, written
\* no file and left every company.json as it was.
C5_NothingToForecast ==
    (/\ pc = "pc_return"
     /\ run.failed = "none"
     /\ Len(run.preprocessing.forecastable_accounts) = 0)
    => /\ run.result = [company_id |-> run.company_id, process_id |-> None,
                        status |-> <<"No forecastable accounts">>,
                        accounts_forecasted |-> 0]
       /\ calls = << >>
       /\ companyJson = before.companyJson
       /\ processDirs = before.processDirs
       /\ resultFiles = before.resultFiles

\* C5 witness: the company whose only expense account nets to zero is about to
\* return with nothing forecast
C5_Witness ==
    /\ pc = "pc_return"
    /\ run.company_id = "RESTO2"
    /\ run.failed = "none"
    /\ Len(run.preprocessing.forecastable_accounts) = 0
    /\ run.result.status = NO_FORECASTABLE

\* C6 (stated as claimed): every run that returns 'Success' has called
\* save_forecast_result exactly once.
C6_SaveCalledOnce ==
    (pc = "pc_return" /\ run.failed = "none" /\ run.result.status = SUCCESS)
    => Count(calls, "save_forecast_result") = 1

\* C7: every run that returns 'Success' has called update_company_metadata
\* exactly once, as its last call, after the forecaster and the saver; and
\* whenever update_company_metadata has been called the result files of the
\* run (all three when intervals are saved) are already on disk.
C7_MetadataAfterFiles ==
    /\ (pc = "pc_return" /\ run.failed = "none" /\ run.result.status = SUCCESS) =>
           /\ Count(calls, "update_company_metadata") = 1
           /\ calls[Len(calls)] = "update_company_metadata"
           /\ Len(calls) = 3
           /\ calls[1] = "forecast"
           /\ calls[2] \in {"save_forecast_result", "save_forecast_result_with_ci"}
           /\ \E i \in DOMAIN VersionsOf(companyJson[run.company_id]) :
                  VersionsOf(companyJson[run.company_id])[i].process_id = RunPid
    /\ (InRun /\ Count(calls, "update_company_metadata") > 0) =>
           /\ pc = "pc_return"
           /\ <<run.company_id, RunPid>> \in processDirs
           /\ HasFile(resultFiles, run.company_id, RunPid, GATHER)
           /\ Count(calls, "save_forecast_result_with_ci") > 0 =>
                  /\ HasFile(resultFiles, run.company_id, RunPid, LOWER)
                  /\ HasFile(resultFiles, run.company_id, RunPid, UPPER)

\* C7 witness: a run that saved a forecast with intervals is about to return
\* 'Success'
C7_Witness ==
    /\ pc = "pc_return"
    /\ run.failed = "none"
    /\ run.result.status = SUCCESS
    /\ calls = <<"forecast", "save_forecast_result_with_ci", "update_company_metadata">>

----------------------------------------------------------------------------
(* Properties of compute_metrics_for_company *)

\* a compute_metrics_for_company call has done its work and is about to return
\* (or raise)
MetricsDone == pc = "m_return"

\* the seven metric names
MetricNames == {"MAPE", "SMAPE", "RMSSE", "NRMSE", "WAPE", "SWAPE", "PBIAS"}

\* C8: when compute_metrics_for_company returns for (company, process_id),
\* company.json differs from its content before the call only in the first
\* version with that process_id: the version holds the aggregated metrics
\* (with 'net_income') under 'metrics', and under meta_data every account with
\* computed metrics holds them under 'metrics'; the other versions, the other
\* fields of that version and of its accounts, the top-level fields, the other
\* companies and the result files are as before.
C8_OnlyFirstMatchingVersionChanges ==
    (MetricsDone /\ run.result.exc = "None") =>
        LET c == run.company_id
            old == before.companyJson[c]
            new == companyJson[c]
            i == CHOOSE k \in DOMAIN old.forecast_versions :
                     /\ old.forecast_versions[k].process_id = run.process_id[1]
                     /\ \A j \in 1..(k - 1) :
                            old.forecast_versions[j].process_id # run.process_id[1]
            ov == old.forecast_versions[i]
            nv == new.forecast_versions[i]
            computed == DOMAIN run.result.account_metrics
        IN /\ \A d \in CompanyIds \ {c} : companyJson[d] = before.companyJson[d]
           /\ resultFiles = before.resultFiles
           /\ processDirs = before.processDirs
           /\ DOMAIN new = DOMAIN old
           /\ \A k \in DOMAIN old \ {"forecast_versions"} : new[k] = old[k]
           /\ Len(new.forecast_versions) = Len(old.forecast_versions)
           /\ \A j \in DOMAIN old.forecast_versions \ {i} :
                  new.forecast_versions[j] = old.forecast_versions[j]
           /\ DOMAIN nv = DOMAIN ov \cup {"metrics"}
           /\ \A k \in DOMAIN ov \ {"metrics", "meta_data"} : nv[k] = ov[k]
           /\ nv.metrics = run.result.aggregated_metrics
           /\ "net_income" \in DOMAIN nv.metrics
           /\ DOMAIN nv.meta_data = DOMAIN ov.meta_data \cup computed
           /\ \A a \in computed :
                  /\ nv.meta_data[a].metrics = run.result.account_metrics[a].metrics
                  /\ a \in DOMAIN ov.meta_data =>
                         /\ DOMAIN nv.meta_data[a] = DOMAIN ov.meta_data[a] \cup {"metrics"}
                         /\ \A k \in DOMAIN ov.meta_data[a] \ {"metrics"} :
                                nv.meta_data[a][k] = ov.meta_data[a][k]
                  /\ a \notin DOMAIN ov.meta_data => DOMAIN nv.meta_data[a] = {"metrics"}
           /\ \A a \in DOMAIN ov.meta_data \ computed : nv.meta_data[a] = ov.meta_data[a]

\* C8 witness: metrics were computed for the process id that two stored
\* versions share; the first got them (one of its accounts had no metadata
\* before), the later one did not
C8_Witness ==
    /\ MetricsDone
    /\ run.result.exc = "None"
    /\ run.company_id = "RESTO1"
    /\ run.process_id = <<PidStored>>
    /\ "metrics" \in DOMAIN companyJson["RESTO1"].forecast_versions[1]
    /\ A601000 \in DOMAIN companyJson["RESTO1"].forecast_versions[1].meta_data
    /\ companyJson["RESTO1"].forecast_versions[3].process_id = PidStored
    /\ "metrics" \notin DOMAIN companyJson["RESTO1"].forecast_versions[3]

\* C9: compute_metrics_for_company raises FileNotFoundError when company.json
\* is missing, ValueError when no stored version has the process_id,
\* FileNotFoundError when the process folder holds no gather_result; and
\* whenever it raises, for these or for a later failure, company.json (and
\* every file) is as it was before the call.
C9_RaisesAndLeavesJsonUnchanged ==
    MetricsDone =>
        LET c == run.company_id
            old == before.companyJson[c]
            known == /\ "missing" \notin DOMAIN old
                     /\ "forecast_versions" \in DOMAIN old
                     /\ \E k \in DOMAIN old.forecast_versions :
                            old.forecast_versions[k].process_id = run.process_id[1]
        IN /\ "missing" \in DOMAIN old => run.result.exc = "FileNotFoundError"
           /\ ("missing" \notin DOMAIN old /\ ~known) => run.result.exc = "ValueError"
           /\ (known /\ <<c, run.process_id[1], "gather_result">> \notin
                            DOMAIN before.resultFiles)
                  => run.result.exc = "FileNotFoundError"
           /\ run.result.exc # "None" =>
                  /\ companyJson = before.companyJson
                  /\ resultFiles = before.resultFiles
                  /\ processDirs = before.processDirs

\* C9 witness: the call failed after the result file was read (the forecast
\* shares no account with the test period), and nothing was written
C9_Witness ==
    /\ MetricsDone
    /\ run.company_id = "RESTO1"
    /\ run.process_id = <<PidNoCommon>>
    /\ run.result.exc = "AttributeError"
    /\ companyJson = before.companyJson

\* the accounts (cut to six digits, classes 6 and 7) with a ledger entry dated in
\* the test period, the h months that end at the accounting date
TestPeriodAccounts(c, upto, h) ==
    {Prefix(FecRows(c)[i].CompteNum, 6) :
        i \in {j \in DOMAIN FecRows(c) :
                  /\ FecRows(c)[j].JournalCode \notin {"AN", "AD"}
                  /\ FecRows(c)[j].CompteNum[1] \in {6, 7}
                  /\ LexLess(AddMonths(upto, -h), FecRows(c)[j].PieceDate)
                  /\ LexLeq(FecRows(c)[j].PieceDate, upto)}}

\* C10: the account_metrics returned by compute_metrics_for_company has an
\* entry for exactly the accounts that are a column of the forecast file and
\* have entries in the test period; every entry's 'metrics' has exactly the
\* seven keys MAPE, SMAPE, RMSSE, NRMSE, WAPE, SWAPE, PBIAS, each a float or
\* None, never NaN.
C10_AccountMetricsShape ==
    (MetricsDone /\ run.result.exc = "None") =>
        LET c == run.company_id
            file == resultFiles[<<c, run.process_id[1], "gather_result">>]
            am == run.result.account_metrics
        IN /\ DOMAIN am =
                  Range(file.labels) \cap
                  TestPeriodAccounts(c, before.companyJson[c].accounting_up_to_date,
                                     ForecastHorizon)
           /\ \A a \in DOMAIN am :
                  /\ DOMAIN am[a] = {"metrics"}
                  /\ DOMAIN am[a].metrics = MetricNames
                  /\ \A m \in MetricNames : am[a].metrics[m].kind \in {"float", "None"}

\* C10 witness: the stored forecast has a column without entries in the test
\* period (no metrics for it), the ledger has a test-period account that is
\* not forecast, and one metric of a forecast account was NaN and came out None
C10_Witness ==
    /\ MetricsDone
    /\ run.result.exc = "None"
    /\ run.process_id = <<PidStored>>
    /\ DOMAIN run.result.account_metrics = {A601000, A707000}
    /\ A606100 \in Range(resultFiles[<<"RESTO1", PidStored, "gather_result">>].labels)
    /\ A622000 \in TestPeriodAccounts("RESTO1", AccountingDate, ForecastHorizon)
    /\ run.result.account_metrics[A707000].metrics.NRMSE.kind = "None"
    /\ run.result.account_metrics[A707000].metrics.MAPE.kind = "float"

----------------------------------------------------------------------------
(* Properties of compute_aggregated_metrics *)

\* C11: the dictionary compute_aggregated_metrics returns (here: the
\* 'aggregated_metrics' of a compute_metrics_for_company call that succeeds)
\* contains the four top-level keys 'net_income', 'total_activity',
\* 'account_type' and 'forecast_type'.
C11_FourTopLevelKeys ==
    (MetricsDone /\ run.result.exc = "None") =>
        {"net_income", "total_activity", "account_type", "forecast_type"}
            \subseteq DOMAIN run.result.aggregated_metrics

----------------------------------------------------------------------------
(* Batch metrics mode: metrics/cli.py, compute_all_missing_metrics.  The    *)
(* data folder exists; its company folders are visited in the order of      *)
(* Path.iterdir(), which is arbitrary.                                       *)

\* a company.json that exists but does not parse (json.load raises)
Unreadable == [unreadable |-> TRUE]

\* "process_id": null in a version record
NullPid == 0

\* a version record that already holds metrics
WithMetrics(version) == [metrics |-> << >>] @@ version

\* the company.json files a folder of the batch may hold
JsonVariants(c) ==
    IF c = "RESTO1" THEN
        { InitialCompanyJson(c), Unreadable,
          [InitialCompanyJson(c) EXCEPT !.forecast_versions =
              << WithMetrics(@[1]), Version("Prophet-v0", NullPid, "Failed", << >>), @[4] >>],
          [InitialCompanyJson(c) EXCEPT !.forecast_versions = << @[1], @[2] >>],
          [InitialCompanyJson(c) EXCEPT !.forecast_versions = << @[1], @[3] >>] }
    ELSE IF c = "RESTO2" THEN
        { InitialCompanyJson(c), Unreadable,
          [forecast_versions |-> << Version("Prophet-v1", PidStored, "Success", << >>) >>]
              @@ InitialCompanyJson(c) }
    ELSE { NoFile, Unreadable }

\* locals of compute_all_missing_metrics: the folders not yet visited, the
\* folder being handled, the versions read from its company.json, the position
\* in them, and the two counters of the summary
IdleScan == [pending |-> {}, company_id |-> "", versions |-> << >>, j |-> 0,
             companies_processed |-> 0, companies_failed |-> 0]

InitAllMetrics ==
    /\ companyJson \in [CompanyIds -> UNION {JsonVariants(c) : c \in CompanyIds}]
    /\ \A c \in CompanyIds : companyJson[c] \in JsonVariants(c)
    /\ processDirs = {<<"RESTO1", PidStored>>, <<"RESTO1", PidNoCommon>>,
                      <<"RESTO2", PidStored>>}
    /\ resultFiles = (FileKey("RESTO1", PidStored, GATHER) :> to_csv(StoredForecast)) @@
                     (FileKey("RESTO1", PidNoCommon, GATHER) :>
                          to_csv(SelectColumns(StoredForecast, <<A606100>>))) @@
                     (FileKey("RESTO2", PidStored, GATHER) :> to_csv(StoredForecast))
    /\ pc = "idle"
    /\ batch = IdleScan
    /\ run = IdleRun
    /\ calls = << >>
    /\ nUuid = 0
    /\ nApi = 0
    /\ nFaults = 0
    /\ before = NoSnapshot

\* compute_all_missing_metrics(data_folder, forecast_horizon=ForecastHorizon)
AllMissingCall ==
    /\ pc = "idle"
    /\ nApi < MaxApiCalls
    /\ nApi' = nApi + 1
    /\ before' = Snapshot
    /\ batch' = [IdleScan EXCEPT !.pending = CompanyIds]
    /\ pc' = "a_folders"
    /\ UNCHANGED <<companyJson, processDirs, resultFiles, run, calls, nUuid, nFaults>>

\* one turn of the loop over the company folders: a folder without
\* company.json is skipped; json.load is outside any try block
NextCompanyFolder ==
    /\ pc = "a_folders"
    /\ \E c \in batch.pending :
          IF ~Exists(companyJson[c])
          THEN /\ batch' = [batch EXCEPT !.pending = @ \ {c}]
               /\ pc' = "a_folders"
               /\ UNCHANGED run
          ELSE IF companyJson[c] = Unreadable
          THEN /\ batch' = [batch EXCEPT !.pending = @ \ {c}, !.company_id = c]
               /\ run' = [IdleRun EXCEPT !.company_id = c, !.failed = "json.load",
                                         !.result = [exc |-> "JSONDecodeError"]]
               /\ pc' = "crashed"
          ELSE /\ batch' = [batch EXCEPT !.pending = @ \ {c}, !.company_id = c,
                                         !.versions = StoredVersions(companyJson[c]),
                                         !.j = 1]
               /\ pc' = "a_versions"
               /\ UNCHANGED run
    /\ UNCHANGED <<companyJson, processDirs, resultFiles, calls, nUuid, nApi, nFaults, before>>

\* 'metrics' in version
AlreadyHasMetrics(version) == "metrics" \in DOMAIN version

\* a faulty variant: after compute_metrics_for_company has updated the file,
\* the loop dumps the copy of company.json it read before looping
VersionStep_WritesBackCopy ==
    /\ pc = "a_versions"
    /\ batch.j <= Len(batch.versions)
    /\ LET c == batch.company_id
           version == batch.versions[batch.j]
           process_id == version.process_id
           out == compute_metrics(companyJson[c], resultFiles, c, process_id, ForecastHorizon)
       IN IF AlreadyHasMetrics(version) \/ process_id = NullPid
             \/ ~HasFile(resultFiles, c, process_id, GATHER)
          THEN /\ batch' = [batch EXCEPT !.j = @ + 1]
               /\ pc' = "a_versions"
               /\ UNCHANGED <<companyJson, run, calls>>
          ELSE /\ companyJson' = [companyJson EXCEPT ![c] =
                                      ("forecast_versions" :> batch.versions) @@ @]
               /\ batch' = [batch EXCEPT !.j = @ + 1]
               /\ calls' = Append(calls, <<c, batch.j,
                                           IF out.exc = "None" THEN "Success" ELSE "Failed">>)
               /\ pc' = "a_versions"
               /\ UNCHANGED run
    /\ UNCHANGED <<processDirs, resultFiles, nUuid, nApi, nFaults, before>>

\* one turn of the loop over the versions read from company.json: a version
\* with 'metrics' or without gather_result is skipped; the path of gather_result
\* is built outside the try block, the call of compute_metrics_for_company
\* inside it.  calls records the lines printed: <<company, version, outcome>>
VersionStep ==
    /\ pc = "a_versions"
    /\ batch.j <= Len(batch.versions)
    /\ LET c == batch.company_id
           version == batch.versions[batch.j]
           process_id == version.process_id
           out == compute_metrics(companyJson[c], resultFiles, c, process_id, ForecastHorizon)
       IN IF AlreadyHasMetrics(version)
          THEN /\ batch' = [batch EXCEPT !.j = @ + 1]
               /\ pc' = "a_versions"
               /\ UNCHANGED <<companyJson, run, calls>>
          ELSE IF process_id = NullPid
          THEN /\ run' = [IdleRun EXCEPT !.company_id = c, !.failed = "gather_result_path",
                                         !.result = [exc |-> "TypeError"]]
               /\ pc' = "crashed"
               /\ UNCHANGED <<companyJson, batch, calls>>
          ELSE IF ~HasFile(resultFiles, c, process_id, GATHER)
          THEN /\ batch' = [batch EXCEPT !.j = @ + 1]
               /\ pc' = "a_versions"
               /\ UNCHANGED <<companyJson, run, calls>>
          ELSE /\ companyJson' =
                     IF out.exc = "None"
                     THEN [companyJson EXCEPT ![c] =
                              update_company_json_with_metrics(@, process_id,
                                  out.account_metrics, out.aggregated_metrics)]
                     ELSE companyJson
               /\ batch' = IF out.exc = "None"
                           THEN [batch EXCEPT !.j = @ + 1, !.companies_processed = @ + 1]
                           ELSE [batch EXCEPT !.j = @ + 1, !.companies_failed = @ + 1]
               /\ calls' = Append(calls, <<c, batch.j,
                                           IF out.exc = "None" THEN "Success" ELSE "Failed">>)
               /\ pc' = "a_versions"
               /\ UNCHANGED run
    /\ UNCHANGED <<processDirs, resultFiles, nUuid, nApi, nFaults, before>>

\* the versions of the folder are exhausted: on to the next folder
VersionsDone ==
    /\ pc = "a_versions"
    /\ batch.j > Len(batch.versions)
    /\ pc' = "a_folders"
    /\ UNCHANGED <<companyJson, processDirs, resultFiles, batch, run, calls,
                   nUuid, nApi, nFaults, before>>

\* the folders are exhausted: the summary is printed and the function returns
AllMissingReturn ==
    /\ pc = "a_folders"
    /\ batch.pending = {}
    /\ pc' = "a_done"
    /\ UNCHANGED <<companyJson, processDirs, resultFiles, batch, run, calls,
                   nUuid, nApi, nFaults, before>>

NextAllMetrics ==
    \/ AllMissingCall
    \/ NextCompanyFolder
    \/ VersionStep
    \/ VersionsDone
    \/ AllMissingReturn

SpecAllMetrics == InitAllMetrics /\ [][NextAllMetrics]_vars

\* the versions of a company.json that batch mode has to compute metrics for:
\* those without 'metrics' whose gather_result is on disk
VersionsToCompute(json, files, c) ==
    IF ~Exists(json) \/ json = Unreadable THEN {}
    ELSE {j \in DOMAIN StoredVersions(json) :
              /\ "metrics" \notin DOMAIN StoredVersions(json)[j]
              /\ HasFile(files, c, StoredVersions(json)[j].process_id, GATHER)}

\* C12: in batch metrics mode an error raised while handling one company or
\* one version (an unreadable company.json and a version without a usable
\* process_id included) is caught and reported: the function never ends by an
\* exception, and when it returns, every version of every readable company
\* that lacked metrics and has its result file has been handled and reported.
C12_BatchSurvivesEveryError ==
    /\ pc # "crashed"
    /\ pc = "a_done" =>
          \A c \in CompanyIds :
              \A j \in VersionsToCompute(before.companyJson[c], before.resultFiles, c) :
                  \E k \in DOMAIN calls : calls[k][1] = c /\ calls[k][2] = j

----------------------------------------------------------------------------
(* Library functions called on their own.  A call draws its arguments, and   *)
(* run holds the function's name, its arguments and what it returned or      *)
(* raised until the call returns.                                            *)

\* what run holds during the call of a library function
CallRecord(fn, args, ret) == [fn |-> fn, args |-> args, ret |-> ret]

\* the variables such a call leaves alone
OutsideRun == <<companyJson, processDirs, resultFiles, batch, calls,
                nUuid, nApi, nFaults, before>>

FunctionReturn ==
    /\ pc = "f_return"
    /\ run' = IdleRun
    /\ pc' = "idle"
    /\ UNCHANGED OutsideRun

\* the call of fn is about to return
Returning(fn) == pc = "f_return" /\ run.fn = fn

----------------------------------------------------------------------------
(* filter_companies: company_discovery.py *)

\* a faulty variant: ids that are not available are dropped silently
filter_companies_SkippingInvalid(all_companies, selected) ==
    IF selected = None \/ selected = Some(<< >>)
    THEN [exc |-> "None", value |-> all_companies]
    ELSE [exc |-> "None", value |-> SelectIn(selected[1], Range(all_companies))]

\* filter_companies(all_companies, selected); selected is None or Some(list)
filter_companies(all_companies, selected) ==
    IF selected = None \/ selected = Some(<< >>)
    THEN [exc |-> "None", value |-> all_companies]
    ELSE LET invalid == SelectSeq(selected[1], LAMBDA c : c \notin Range(all_companies))
         IN IF invalid # << >>
            THEN [exc |-> "ValueError",
                  message |-> <<"Company(ies) not found: ", invalid,
                                ". Available companies: ", all_companies>>]
            ELSE [exc |-> "None", value |-> selected[1]]

FilterCompaniesCall ==
    /\ pc = "idle"
    /\ \E all_companies \in SeqsUpTo(CompanyIds, MaxBatch),
          selected \in {None} \cup {Some(s) : s \in SeqsUpTo(CompanyIds, MaxBatch)} :
           run' = CallRecord("filter_companies",
                             [all_companies |-> all_companies, selected |-> selected],
                             filter_companies(all_companies, selected))
    /\ pc' = "f_return"
    /\ UNCHANGED OutsideRun

\* C13: filter_companies returns all_companies when selected is None or empty;
\* raises ValueError with a message containing 'not found' (and returns
\* nothing) when some selected id is not in all_companies; otherwise returns
\* the selected ids unchanged, in the order given.
C13_FilterCompanies ==
    Returning("filter_companies") =>
        LET all_companies == run.args.all_companies
            selected == run.args.selected
            ret == run.ret
        IN IF selected = None \/ selected = Some(<< >>)
           THEN ret.exc = "None" /\ ret.value = all_companies
           ELSE IF \E i \in DOMAIN selected[1] :
                      \A k \in DOMAIN all_companies : all_companies[k] # selected[1][i]
           THEN /\ ret.exc = "ValueError"
                /\ "value" \notin DOMAIN ret
                /\ \E i \in DOMAIN ret.message : ret.message[i] = "Company(ies) not found: "
           ELSE ret.exc = "None" /\ ret.value = selected[1]

\* C13 witness: a selection of one available and one unknown id raises
C13_Witness ==
    /\ Returning("filter_companies")
    /\ run.args.all_companies = <<"RESTO1", "RESTO2">>
    /\ run.args.selected = Some(<<"RESTO2", "GHOST">>)
    /\ run.ret.exc = "ValueError"

----------------------------------------------------------------------------
(* load_fecs with train_test_split=True: fec_loader.py *)

\* ledger rows per call
MaxRows == 2

\* the dates of the ledger rows drawn, around the cut-offs of the two
\* accounting dates (a cut-off date itself, the day after it, a later date)
LedgerDates == { <<2024, 1, 31>>, <<2024, 2, 29>>, <<2024, 3, 1>>, <<2024, 5, 30>>,
                 <<2024, 5, 31>>, <<2024, 6, 30>>, <<2024, 7, 1>> }

AccountingDates == { <<2024, 6, 30>>, <<2024, 3, 31>> }

\* the ledgers drawn: sales entries that differ in their date
SalesRows == { Row("VT", A707000, d, 0, 100) : d \in LedgerDates }

\* load_fecs(company_id, folder, accounting_up_to_date, train_test_split=True,
\* forecast_horizon) on a folder whose files hold the rows drawn
LoadFecsCall ==
    /\ pc = "idle"
    /\ \E rows \in SeqsUpTo(SalesRows, MaxRows), upto \in AccountingDates,
          h \in 1..ForecastHorizon :
           run' = CallRecord("load_fecs",
                             [rows |-> rows, accounting_up_to_date |-> upto,
                              forecast_horizon |-> h],
                             load_fecs(formatage(rows), upto, h))
    /\ pc' = "f_return"
    /\ UNCHANGED OutsideRun

\* a date as a number that orders dates
DayNumber(date) == date[1] * 10000 + date[2] * 100 + date[3]

\* C14: load_fecs with train_test_split=True partitions the rows dated on or
\* before accounting_up_to_date: a row is in the train set iff its PieceDate is
\* <= the cut-off (accounting_up_to_date minus forecast_horizon months) and in
\* the test set iff it is later; the sets are disjoint, together hold every
\* row dated <= accounting_up_to_date, and hold no row dated after it.
C14_TrainTestPartition ==
    Returning("load_fecs") =>
        LET rows == run.args.rows
            upto == DayNumber(run.args.accounting_up_to_date)
            cutoff == DayNumber(AddMonths(run.args.accounting_up_to_date,
                                          -run.args.forecast_horizon))
            train == run.ret.train
            test == run.ret.test
        IN /\ \A i \in DOMAIN train : DayNumber(train[i].PieceDate) <= cutoff
           /\ \A i \in DOMAIN test :
                  /\ DayNumber(test[i].PieceDate) > cutoff
                  /\ DayNumber(test[i].PieceDate) <= upto
           /\ \A r \in Range(rows) :
                  Count(train, r) + Count(test, r) =
                      IF DayNumber(r.PieceDate) <= upto THEN Count(rows, r) ELSE 0
           /\ Len(train) + Len(test) =
                  Cardinality({i \in DOMAIN rows : DayNumber(rows[i].PieceDate) <= upto})

\* C14 witness: a row dated at the cut-off (end of February, one month before
\* 31 March) is in the train set, a row of the next day in the test set
C14_Witness ==
    /\ Returning("load_fecs")
    /\ run.args.accounting_up_to_date = <<2024, 3, 31>>
    /\ run.args.forecast_horizon = 1
    /\ Len(run.ret.train) = 1 /\ run.ret.train[1].PieceDate = <<2024, 2, 29>>
    /\ Len(run.ret.test) = 1 /\ run.ret.test[1].PieceDate = <<2024, 3, 1>>

----------------------------------------------------------------------------
(* fec_to_monthly_totals called on its own: preprocessing.py *)

\* the entries drawn: a sale (credit only) or a purchase (debit only) amount
\* on a revenue or an expense account, on two days of January or in February
EntryRows ==
    { Row("VT", a, d, m[1], m[2]) :
          a \in {A707000, A601000},
          d \in {<<2023, 1, 15>>, <<2023, 1, 31>>, <<2023, 2, 1>>},
          m \in {<<0, 100>>, <<50, 0>>} }

MonthlyTotalsCall ==
    /\ pc = "idle"
    /\ \E fecs \in SeqsUpTo(EntryRows, MaxRows) :
           run' = CallRecord("fec_to_monthly_totals", [fecs |-> fecs],
                             fec_to_monthly_totals(fecs))
    /\ pc' = "f_return"
    /\ UNCHANGED OutsideRun

\* the sum of sign * (Debit - Credit) over the rows of one month and account
RECURSIVE SignedTotal(_, _, _, _)
SignedTotal(rows, month, compte, sign) ==
    IF rows = << >> THEN 0
    ELSE (IF <<Head(rows).PieceDate[1], Head(rows).PieceDate[2], 1>> = month
             /\ Head(rows).CompteNum = compte
          THEN sign * (Head(rows).Debit - Head(rows).Credit) ELSE 0)
         + SignedTotal(Tail(rows), month, compte, sign)

\* C15: fec_to_monthly_totals uses an account-aware sign convention: the monthly
\* Solde of a revenue account (7xx) is Credit minus Debit, so credit-only
\* entries give a positive Solde equal to the amount credited, and the Solde of
\* an expense account (6xx) is Debit minus Credit.
C15_AccountAwareSign ==
    Returning("fec_to_monthly_totals") =>
        \A r \in run.ret :
            r.Solde = SignedTotal(run.args.fecs, r.PieceDate, r.CompteNum,
                                  IF Head(r.CompteNum) = 7 THEN -1 ELSE 1)

----------------------------------------------------------------------------
(* Wide/long conversion: data_converter.py.  The long form is the list of   *)
(* its records [timestamp, target, item_id], in row order.                   *)

\* wide_to_tabpfn_format(wide_df): reset_index, rename 'ds' to 'timestamp',
\* melt (column after column, the rows of each in index order)
wide_to_tabpfn_format(wide_df) ==
    IF wide_df.index = << >> \/ wide_df.columns = << >> THEN << >>
    ELSE LET rows == Len(wide_df.index)
             n == rows * Len(wide_df.columns)
         IN [k \in 1..n |->
                LET i == ((k - 1) % rows) + 1
                    j == ((k - 1) \div rows) + 1
                IN [timestamp |-> wide_df.index[i],
                    target |-> wide_df.val[<<wide_df.index[i], wide_df.columns[j]>>],
                    item_id |-> wide_df.columns[j]]]

\* df.pivot(index='timestamp', columns='item_id', values='target'): it fails
\* when two records share timestamp and item_id; a missing pair gives NaN
PivotLong(long) ==
    LET index == SortedSeq({long[k].timestamp : k \in DOMAIN long})
        columns == SortedSeq({long[k].item_id : k \in DOMAIN long})
        at(d, a) == {k \in DOMAIN long : long[k].timestamp = d /\ long[k].item_id = a}
    IN IF \E k1, k2 \in DOMAIN long :
              /\ k1 < k2
              /\ long[k1].timestamp = long[k2].timestamp
              /\ long[k1].item_id = long[k2].item_id
       THEN [exc |-> "ValueError"]
       ELSE [exc |-> "None",
             df |-> Frame("timestamp", index, columns,
                          Cells(index, columns,
                                LAMBDA d, a : IF at(d, a) = {} THEN NaN
                                              ELSE long[CHOOSE k \in at(d, a) : TRUE].target))]

\* a faulty variant: the columns stay in the order the pivot gives them
tabpfn_output_to_wide_format_PivotOrder(tabpfn_output, accounts) ==
    IF PivotLong(tabpfn_output).exc # "None" THEN PivotLong(tabpfn_output)
    ELSE [exc |-> "None", df |-> [PivotLong(tabpfn_output).df EXCEPT !.name = "ds"]]

\* tabpfn_output_to_wide_format(tabpfn_output, accounts) for an output with a
\* plain index: pivot, wide_df[accounts] (KeyError for an account that is no
\* column), index named 'ds'
tabpfn_output_to_wide_format(tabpfn_output, accounts) ==
    IF PivotLong(tabpfn_output).exc # "None" THEN PivotLong(tabpfn_output)
    ELSE IF \E i \in DOMAIN accounts : accounts[i] \notin Range(PivotLong(tabpfn_output).df.columns)
    THEN [exc |-> "KeyError"]
    ELSE [exc |-> "None",
          df |-> [SelectColumns(PivotLong(tabpfn_output).df, accounts) EXCEPT !.name = "ds"]]

\* the dates of the frames drawn
FrameDates == { <<2023, 1, 1>>, <<2023, 2, 1>> }

\* the cells of the frames drawn
FrameCells == { NaN, Num(1), Num(2) }

\* the wide frames drawn: index named 'ds' of one to MaxRows dates (in any
\* order, a date possibly repeated), one or two distinct account columns
WideFrames ==
    UNION { { Frame("ds", index, columns, val) :
                  val \in [Range(index) \X Range(columns) -> FrameCells] } :
            index \in SeqsUpTo(FrameDates, MaxRows) \ {<< >>},
            columns \in {<<A707000>>, <<A601000>>, <<A707000, A601000>>,
                         <<A601000, A707000>>} }

\* wide_to_tabpfn_format, then tabpfn_output_to_wide_format with the columns
\* of the frame as accounts
RoundTripCall ==
    /\ pc = "idle"
    /\ \E df \in WideFrames :
           run' = CallRecord("round_trip", [wide_df |-> df],
                             [long |-> wide_to_tabpfn_format(df),
                              back |-> tabpfn_output_to_wide_format(
                                           wide_to_tabpfn_format(df), df.columns)])
    /\ pc' = "f_return"
    /\ UNCHANGED OutsideRun

\* the frame `back` has the dates, the columns (in order) and the cells of df
SameFrame(df, back) ==
    /\ back.exc = "None"
    /\ back.df.name = "ds"
    /\ back.df.columns = df.columns
    /\ Len(back.df.index) = Len(df.index)
    /\ Range(back.df.index) = Range(df.index)
    /\ \A d \in Range(df.index), a \in Range(df.columns) :
           back.df.val[<<d, a>>] = df.val[<<d, a>>]

DistinctDates(df) ==
    \A i, j \in DOMAIN df.index : i # j => df.index[i] # df.index[j]

\* C16 as stated: for every non-empty wide frame with a date index named 'ds'
\* and distinct account columns, converting to the long form and back gives
\* the same dates, the same columns in the same order and the same value
\* (missing values included) in every cell; the long form has rows x columns
\* records.
C16_RoundTripEveryFrame ==
    Returning("round_trip") =>
        /\ SameFrame(run.args.wide_df, run.ret.back)
        /\ Len(run.ret.long) = Len(run.args.wide_df.index) * Len(run.args.wide_df.columns)

\* C16, amended: the round trip gives the frame back when, in addition, the
\* dates of the index are distinct (they come back in ascending order); the
\* long form has rows x columns records in every case; with a repeated date the
\* conversion back raises ValueError.
C16_RoundTripDistinctDates ==
    Returning("round_trip") =>
        LET df == run.args.wide_df
            back == run.ret.back
        IN /\ Len(run.ret.long) = Len(df.index) * Len(df.columns)
           /\ DistinctDates(df) =>
                  /\ SameFrame(df, back)
                  /\ \A i \in 1..(Len(back.df.index) - 1) :
                         DayNumber(back.df.index[i]) < DayNumber(back.df.index[i + 1])
           /\ ~DistinctDates(df) => back.exc = "ValueError"

\* C16 witness: a frame with two dates given in descending order, two columns
\* given in descending order and a missing value comes back
C16_Witness ==
    /\ Returning("round_trip")
    /\ run.args.wide_df.index = << <<2023, 2, 1>>, <<2023, 1, 1>> >>
    /\ run.args.wide_df.columns = <<A707000, A601000>>
    /\ run.args.wide_df.val[<< <<2023, 1, 1>>, A601000 >>] = NaN
    /\ run.args.wide_df.val[<< <<2023, 2, 1>>, A707000 >>] = Num(2)
    /\ run.ret.back.exc = "None"
    /\ run.ret.back.df.columns = <<A707000, A601000>>
    /\ run.ret.back.df.val[<< <<2023, 2, 1>>, A707000 >>] = Num(2)
    /\ Len(run.ret.long) = 4

----------------------------------------------------------------------------
(* load_gather_result on each kind of file: result_loader.py                *)

\* text that is base64 at its start and does not decode to a DataFrame: cut
\* short, not a zlib stream, not a pickle, a pickled dict
BrokenBase64 ==
    { [format |-> "b64", complete |-> FALSE, bytes |-> [kind |-> "raw"]],
      b64encode([kind |-> "raw"]),
      b64encode(zlib_compress([kind |-> "raw"])),
      b64encode(zlib_compress(pickle_dumps(DictObj))) }

\* the files drawn: how each was made, the frame stored in it if any, its content
GatherFiles ==
    { [how |-> "missing", frame |-> None, content |-> NoFile],
      [how |-> "neither", frame |-> None, content |-> [format |-> "text"]] }
    \cup { [how |-> "broken", frame |-> None, content |-> c] : c \in BrokenBase64 }
    \cup { [how |-> "save_forecast_result", frame |-> Some(df), content |-> to_csv(df)] :
           df \in WideFrames }
    \cup { [how |-> "encoded", frame |-> Some(df),
            content |-> b64encode(zlib_compress(pickle_dumps(DataFrameObj(df))))] :
           df \in WideFrames }

LoadGatherCall ==
    /\ pc = "idle"
    /\ \E file \in GatherFiles :
           run' = CallRecord("load_gather_result", file, load_gather_result(file.content))
    /\ pc' = "f_return"
    /\ UNCHANGED OutsideRun

\* C17: load_gather_result returns a frame with index named 'ds' and the
\* columns, dates and values of the frame stored, for the file written by
\* save_forecast_result (CSV) and for the base64(zlib(pickle(frame))) file; a
\* file that is neither raises ValueError; a missing file raises
\* FileNotFoundError; content that looks like base64 and does not decode is
\* handed to the CSV parser (whose failure is the ValueError), no decoding
\* error is raised.
C17_LoadsEitherFormat ==
    Returning("load_gather_result") =>
        /\ run.args.how \in {"save_forecast_result", "encoded"} =>
               LET df == run.args.frame[1]
               IN /\ run.ret.exc = "None"
                  /\ run.ret.df.name = "ds"
                  /\ run.ret.df.columns = df.columns
                  /\ run.ret.df.index = df.index
                  /\ \A d \in Range(df.index), a \in Range(df.columns) :
                         run.ret.df.val[<<d, a>>] = df.val[<<d, a>>]
        /\ run.args.how = "neither" => run.ret.exc = "ValueError"
        /\ run.args.how = "missing" => run.ret.exc = "FileNotFoundError"
        /\ run.args.how = "broken" => run.ret.exc = "ValueError"

\* C17 witness: a frame with a missing value is recovered from the encoded file
C17_Witness ==
    /\ Returning("load_gather_result")
    /\ run.args.how = "encoded"
    /\ run.args.frame[1].index = << <<2023, 1, 1>>, <<2023, 2, 1>> >>
    /\ run.args.frame[1].columns = <<A707000, A601000>>
    /\ run.args.frame[1].val[<< <<2023, 2, 1>>, A601000 >>] = NaN
    /\ run.ret.exc = "None"
    /\ run.ret.df.val[<< <<2023, 1, 1>>, A707000 >>] = run.args.frame[1].val[<< <<2023, 1, 1>>, A707000 >>]
    /\ run.ret.df.val[<< <<2023, 2, 1>>, A601000 >>] = NaN

----------------------------------------------------------------------------
(* generate_seasonal_naive called on its own: seasonal_naive.py             *)

\* the histories drawn: 0 to MaxRows consecutive months from November
\* 2023, one or two account columns
HistoryFrames ==
    UNION { { Frame("ds", index, columns, val) :
                  val \in [Range(index) \X Range(columns) -> FrameCells] } :
            index \in { [i \in 1..n |-> AddMonths(<<2023, 11, 1>>, i - 1)] :
                        n \in 0..MaxRows },
            columns \in {<<A707000>>, <<A707000, A601000>>} }

\* the horizons drawn (forecast_horizon is an int; the command line passes any)
Horizons == 0..ForecastHorizon

\* generate_seasonal_naive(historical_df, forecast_horizon); historical_df is
\* the caller's frame after the call (the function works on a copy, line 63)
SeasonalNaiveCall ==
    /\ pc = "idle"
    /\ \E df \in HistoryFrames, h \in Horizons :
           run' = CallRecord("generate_seasonal_naive",
                             [historical_df |-> df, forecast_horizon |-> h],
                             [out |-> generate_seasonal_naive(df, h), historical_df |-> df])
    /\ pc' = "f_return"
    /\ UNCHANGED OutsideRun

\* C18: generate_seasonal_naive raises ValueError when the history has fewer
\* rows than forecast_horizon; otherwise it returns exactly forecast_horizon
\* rows: the last forecast_horizon rows of the history, with the same columns
\* and values, each date moved forecast_horizon months forward; the history
\* given is not modified.
C18_SeasonalNaive ==
    Returning("generate_seasonal_naive") =>
        LET df == run.args.historical_df
            h == run.args.forecast_horizon
            len == Len(df.index)
            out == run.ret.out
        IN /\ run.ret.historical_df = df
           /\ len < h => out.exc = "ValueError"
           /\ len >= h =>
                  /\ out.exc = "None"
                  /\ Len(out.df.index) = h
                  /\ out.df.columns = df.columns
                  /\ \A i \in 1..h :
                         /\ out.df.index[i] = AddMonths(df.index[len - h + i], h)
                         /\ \A a \in Range(df.columns) :
                                out.df.val[<<out.df.index[i], a>>]
                                    = df.val[<<df.index[len - h + i], a>>]

\* the claim restricted to forecast_horizon >= 1
SeasonalNaivePositiveHorizon ==
    (Returning("generate_seasonal_naive") /\ run.args.forecast_horizon = 0) \/ C18_SeasonalNaive

----------------------------------------------------------------------------
(* compute_all_metrics called on its own: compute_metrics.py                *)

\* the periods of the frames drawn: n months from January 2024
MetricDates(n) == [i \in 1..n |-> AddMonths(<<2024, 1, 1>>, i - 1)]

\* x + e for a cell x (NaN stays NaN)
PlusError(x, e) == IF IsNaN(x) THEN NaN ELSE Num(x[1] + e)

\* the second account of a frame drawn, the same in every period: constant
\* actuals met by forecast and baseline; zero actuals; a forecast that is off
OtherAccounts ==
    { [actual |-> Num(5), forecast |-> Num(5), naive |-> Num(5)],
      [actual |-> Num(0), forecast |-> Num(0), naive |-> Num(1)],
      [actual |-> Num(1), forecast |-> Num(2), naive |-> Num(1)] }

\* actual_df, forecast_df and seasonal_naive_df over the same periods and
\* accounts: 707000 with the given actuals, forecast errors and baseline, and
\* 601000 as `other` says, if any
MetricFrames(index, actual, err, naive, other) ==
    LET columns == IF other = None THEN <<A707000>> ELSE <<A707000, A601000>>
    IN [actual_df |-> Frame("ds", index, columns,
                            Cells(index, columns,
                                  LAMBDA d, a : IF a = A707000 THEN actual[d]
                                                ELSE other[1].actual)),
        forecast_df |-> Frame("ds", index, columns,
                              Cells(index, columns,
                                    LAMBDA d, a : IF a = A707000
                                                  THEN PlusError(actual[d], err[d])
                                                  ELSE other[1].forecast)),
        seasonal_naive_df |-> Frame("ds", index, columns,
                                    Cells(index, columns,
                                          LAMBDA d, a : IF a = A707000 THEN naive[d]
                                                        ELSE other[1].naive))]

\* compute_all_metrics(actual_df, forecast_df, seasonal_naive_df)
AllMetricsCall ==
    /\ pc = "idle"
    /\ \E n \in 1..MaxRows :
           \E actual \in [Range(MetricDates(n)) -> {NaN, Num(0), Num(-1), Num(2)}],
              err \in [Range(MetricDates(n)) -> {0, 1}],
              naive \in [Range(MetricDates(n)) -> {NaN, Num(0)}],
              other \in {None} \cup {Some(o) : o \in OtherAccounts} :
                  run' = CallRecord("compute_all_metrics",
                                    MetricFrames(MetricDates(n), actual, err, naive, other),
                                    compute_all_metrics(
                                        MetricFrames(MetricDates(n), actual, err, naive, other).actual_df,
                                        MetricFrames(MetricDates(n), actual, err, naive, other).forecast_df,
                                        MetricFrames(MetricDates(n), actual, err, naive, other).seasonal_naive_df))
    /\ pc' = "f_return"
    /\ UNCHANGED OutsideRun

\* the forecast of the call holds, in every period and for every account, the
\* number the actuals hold
PerfectForecast ==
    \A d \in Range(run.args.actual_df.index), a \in Range(run.args.actual_df.columns) :
        /\ ~IsNaN(run.args.actual_df.val[<<d, a>>])
        /\ run.args.forecast_df.val[<<d, a>>] = run.args.actual_df.val[<<d, a>>]

\* the metric value 0.0
ZeroMetric == [kind |-> "num", sq |-> FALSE, val |-> <<0, 1>>]

\* C19: for a perfect forecast (forecast equals actual in every period) RMSSE
\* and NRMSE are 0 for every account, also when the actuals are constant or the
\* naive baseline is perfect too, and MAPE, SMAPE, WAPE, SWAPE and PBIAS are 0
\* for every account with at least one non-zero actual.
C19_PerfectForecastMetrics ==
    (Returning("compute_all_metrics") /\ PerfectForecast) =>
        \A a \in Range(run.args.actual_df.columns) :
            /\ run.ret.RMSSE[a] = ZeroMetric
            /\ run.ret.NRMSE[a] = ZeroMetric
            /\ (\E d \in Range(run.args.actual_df.index) :
                    run.args.actual_df.val[<<d, a>>] # Num(0)) =>
                   /\ run.ret.MAPE[a] = ZeroMetric
                   /\ run.ret.SMAPE[a] = ZeroMetric
                   /\ run.ret.WAPE[a] = ZeroMetric
                   /\ run.ret.SWAPE[a] = ZeroMetric
                   /\ run.ret.PBIAS[a] = ZeroMetric

\* C19 witness: a perfect forecast of two periods where 707000 has a zero and
\* a non-zero actual and a baseline without a number, and 601000 has constant
\* actuals that forecast and baseline both meet
C19_Witness ==
    /\ Returning("compute_all_metrics")
    /\ PerfectForecast
    /\ run.args.actual_df.index = MetricDates(2)
    /\ run.args.actual_df.columns = <<A707000, A601000>>
    /\ run.args.actual_df.val[<< <<2024, 1, 1>>, A707000 >>] = Num(0)
    /\ run.args.actual_df.val[<< <<2024, 2, 1>>, A707000 >>] = Num(-1)
    /\ run.args.seasonal_naive_df.val[<< <<2024, 1, 1>>, A707000 >>] = NaN
    /\ run.args.seasonal_naive_df.val[<< <<2024, 2, 1>>, A707000 >>] = NaN
    /\ run.args.actual_df.val[<< <<2024, 1, 1>>, A601000 >>] = Num(5)
    /\ run.args.seasonal_naive_df.val[<< <<2024, 1, 1>>, A601000 >>] = Num(5)
    /\ run.ret.RMSSE[A601000] = ZeroMetric
    /\ run.ret.NRMSE[A601000] = ZeroMetric
    /\ run.ret.MAPE[A707000] = ZeroMetric
    /\ run.ret.PBIAS[A601000] = ZeroMetric

----------------------------------------------------------------------------
(* preprocess_data called on its own: preprocessing.py                      *)

\* the months of the monthly totals drawn; May 2021 is in the COVID period
TotalsMonths == { <<2021, 5, 1>>, <<2021, 6, 1>>, <<2021, 7, 1>>, <<2021, 8, 1>> }

\* the monthly totals drawn: per month, 601000 absent or with Solde 0 or 5,
\* 707000 absent or with Solde 5; 622000 (of no forecastable type) in July or not
TotalsDrawn ==
    { { [PieceDate |-> d, CompteNum |-> A601000, Solde |-> expense[d][1]] :
            d \in {m \in TotalsMonths : expense[m] # NaN} }
      \cup { [PieceDate |-> d, CompteNum |-> A707000, Solde |-> 5] : d \in revenue }
      \cup { [PieceDate |-> <<2021, 7, 1>>, CompteNum |-> A622000, Solde |-> 5] :
             x \in untyped } :
      expense \in [TotalsMonths -> {NaN, Num(0), Num(5)}],
      revenue \in SUBSET TotalsMonths,
      untyped \in SUBSET {1} }

\* preprocess_data(monthly_totals, accounting_date_up_to_date,
\* classification_charges, active_window_months=window), the other options at
\* their defaults
PreprocessCall ==
    /\ pc = "idle"
    /\ \E monthly \in TotalsDrawn,
          upto \in { <<2021, 7, 31>>, <<2021, 8, 31>> },
          window \in 1..2 :
              run' = CallRecord("preprocess_data",
                                [monthly_totals |-> monthly,
                                 accounting_date_up_to_date |-> upto,
                                 active_window_months |-> window],
                                preprocess_data(monthly, upto, load_classification_charges,
                                                USE_COVID_DUMMIES, window,
                                                REPLACE_ZEROS_WITH_NAN))
    /\ pc' = "f_return"
    /\ UNCHANGED OutsideRun

\* the number of the calendar month of a date
MonthNumber(date) == date[1] * 12 + date[2]

\* C20: forecastable_accounts is exactly the set of accounts of a forecastable
\* type (fixed, variable, revenue or forecastable prefix) with at least one
\* non-null value, after zero replacement and COVID blanking, in the last N
\* calendar months ending at the accounting date, N = active_window_months; an
\* account whose only values are older is excluded.
C20_ActiveInLastCalendarMonths ==
    Returning("preprocess_data") =>
        LET upto == run.args.accounting_date_up_to_date
            N == run.args.active_window_months
            active == { r \in run.args.monthly_totals :
                          /\ r.Solde # 0
                          /\ ~(DayNumber(COVID_START_DATE) <= DayNumber(r.PieceDate)
                               /\ DayNumber(r.PieceDate) <= DayNumber(COVID_END_DATE))
                          /\ DayNumber(r.PieceDate) <= DayNumber(upto)
                          /\ MonthNumber(r.PieceDate) > MonthNumber(upto) - N }
        IN Range(run.ret.forecastable_accounts)
               = { r.CompteNum : r \in { x \in active :
                       \E c \in load_classification_charges : StartsWith(x.CompteNum, c.name) } }

\* the claim restricted to monthly totals that have a row (of any account) in
\* each of the last N calendar months ending at the accounting date
ActiveWindowWithoutGaps ==
    (Returning("preprocess_data") /\
     \A k \in 0..(run.args.active_window_months - 1) :
         \E r \in run.args.monthly_totals :
             MonthNumber(r.PieceDate)
                 = MonthNumber(run.args.accounting_date_up_to_date) - k)
        => C20_ActiveInLastCalendarMonths

----------------------------------------------------------------------------
(* preprocess_data and the COVID period: preprocessing.py steps 1 to 4      *)

\* the months drawn: the month before the COVID period, its first and last
\* month, the month after
CovidMonths == { <<2020, 1, 1>>, <<2020, 2, 1>>, <<2021, 5, 1>>, <<2021, 6, 1>> }

\* the monthly totals drawn: per month, 601000 absent or with Solde 0 or 5,
\* 707000 absent or with Solde 5
CovidTotals ==
    { { [PieceDate |-> d, CompteNum |-> A601000, Solde |-> expense[d][1]] :
            d \in {m \in CovidMonths : expense[m] # NaN} }
      \cup { [PieceDate |-> d, CompteNum |-> A707000, Solde |-> 5] : d \in revenue } :
      expense \in [CovidMonths -> {NaN, Num(0), Num(5)}],
      revenue \in SUBSET CovidMonths }

\* preprocess_data(monthly_totals, 2021-12-31, classification_charges,
\* use_covid_dummies, replace_zeros_with_nan=replace_zeros)
PreprocessCovidCall ==
    /\ pc = "idle"
    /\ \E monthly \in CovidTotals, use_covid_dummies \in BOOLEAN, replace_zeros \in BOOLEAN :
           run' = CallRecord("preprocess_data(use_covid_dummies)",
                             [monthly_totals |-> monthly,
                              use_covid_dummies |-> use_covid_dummies,
                              replace_zeros_with_nan |-> replace_zeros],
                             preprocess_data(monthly, <<2021, 12, 31>>,
                                             load_classification_charges, use_covid_dummies,
                                             ACTIVE_ACCOUNT_WINDOW_MONTHS, replace_zeros))
    /\ pc' = "f_return"
    /\ UNCHANGED OutsideRun

\* C21: with use_covid_dummies=False every cell of every account whose month
\* lies within 2020-02-01 .. 2021-05-31 (both included) is missing in
\* data_wide_format and every other cell holds the monthly total it was given
\* (a zero replaced if so configured); with use_covid_dummies=True every cell
\* holds the total it was given: none is blanked for COVID.
C21_CovidPeriodBlanked ==
    Returning("preprocess_data(use_covid_dummies)") =>
        LET wide == run.ret.data_wide_format
            InCovid(d) == /\ DayNumber(<<2020, 2, 1>>) <= DayNumber(d)
                          /\ DayNumber(d) <= DayNumber(<<2021, 5, 31>>)
            Given(r) == IF run.args.replace_zeros_with_nan /\ r.Solde = 0
                        THEN NaN ELSE Num(r.Solde)
        IN /\ Range(wide.index) = {r.PieceDate : r \in run.args.monthly_totals}
           /\ Range(wide.columns) = {r.CompteNum : r \in run.args.monthly_totals}
           /\ \A r \in run.args.monthly_totals :
                  wide.val[<<r.PieceDate, r.CompteNum>>]
                      = IF ~run.args.use_covid_dummies /\ InCovid(r.PieceDate)
                        THEN NaN ELSE Given(r)
           /\ ~run.args.use_covid_dummies =>
                  \A d \in Range(wide.index), a \in Range(wide.columns) :
                      InCovid(d) => wide.val[<<d, a>>] = NaN

\* C21 witness: both accounts have a total of 5 in each of the four months;
\* January 2020 and June 2021 keep it, February 2020 and May 2021 lose it
C21_Witness ==
    /\ Returning("preprocess_data(use_covid_dummies)")
    /\ ~run.args.use_covid_dummies
    /\ Cardinality(run.args.monthly_totals) = 8
    /\ \A r \in run.args.monthly_totals : r.Solde = 5
    /\ run.ret.data_wide_format.val[<< <<2020, 1, 1>>, A707000 >>] = Num(5)
    /\ run.ret.data_wide_format.val[<< <<2020, 2, 1>>, A707000 >>] = NaN
    /\ run.ret.data_wide_format.val[<< <<2021, 5, 1>>, A601000 >>] = NaN
    /\ run.ret.data_wide_format.val[<< <<2021, 6, 1>>, A601000 >>] = Num(5)

----------------------------------------------------------------------------
(* import_fecs on a folder: fec_loader.py.  A file name is the list of its  *)
(* characters; a folder is the list of its files as os.listdir gives them.  *)

\* str.endswith(suffix)
EndsWith(s, suffix) ==
    Len(suffix) <= Len(s) /\ SubSeq(s, Len(s) - Len(suffix) + 1, Len(s)) = suffix

\* pd.concat(frames).reset_index(drop=True): the rows of each, one after another
RECURSIVE ConcatRows(_)
ConcatRows(frames) ==
    IF frames = << >> THEN << >> ELSE Head(frames) \o ConcatRows(Tail(frames))

\* import_fecs(fecs_folder_path): FileNotFoundError without the folder; the
\* files whose name ends with "txt", "csv" or "tsv" are read and formatted;
\* ValueError if there is none; else their rows, concatenated
import_fecs(folder) ==
    IF folder = None THEN [exc |-> "FileNotFoundError"]
    ELSE LET fecs_to_concat ==
                 SelectSeq(folder[1], LAMBDA f : \/ EndsWith(f.name, <<"t", "x", "t">>)
                                                 \/ EndsWith(f.name, <<"c", "s", "v">>)
                                                 \/ EndsWith(f.name, <<"t", "s", "v">>))
         IN IF fecs_to_concat = << >> THEN [exc |-> "ValueError"]
            ELSE [exc |-> "None",
                  fecs |-> ConcatRows([i \in DOMAIN fecs_to_concat |->
                                          formatage(fecs_to_concat[i].rows)])]

\* the files drawn, each with an opening-balance row and a sales row of its
\* own: a.txt, b.csv, c.tsv, n_txt, c.json, result
FolderFiles ==
    { [name |-> <<"a", ".", "t", "x", "t">>,
       rows |-> << Row("AN", A601000, <<2024, 1, 1>>, 0, 50), Row("VT", A707000, <<2024, 1, 15>>, 0, 1) >>],
      [name |-> <<"b", ".", "c", "s", "v">>,
       rows |-> << Row("VT", A707000, <<2024, 2, 15>>, 0, 2), Row("AD", A601000, <<2024, 2, 1>>, 5, 0) >>],
      [name |-> <<"c", ".", "t", "s", "v">>,
       rows |-> << Row("VT", A707000, <<2024, 3, 15>>, 0, 3) >>],
      [name |-> <<"n", "_", "t", "x", "t">>,
       rows |-> << Row("VT", A707000, <<2024, 4, 15>>, 0, 4) >>],
      [name |-> <<"c", ".", "j", "s", "o", "n">>,
       rows |-> << Row("VT", A707000, <<2024, 5, 15>>, 0, 5) >>],
      [name |-> <<"r", "e", "s", "u", "l", "t">>,
       rows |-> << Row("VT", A707000, <<2024, 6, 15>>, 0, 6) >>] }

\* the largest number of files of a folder drawn
MaxFiles == 2

\* the folders drawn: none, or up to MaxFiles files with different names
Folders ==
    {None} \cup { Some(listing) : listing \in
                    { l \in SeqsUpTo(FolderFiles, MaxFiles) :
                        \A i, j \in DOMAIN l : i # j => l[i] # l[j] } }

ImportFecsCall ==
    /\ pc = "idle"
    /\ \E folder \in Folders :
           run' = CallRecord("import_fecs", [folder |-> folder], import_fecs(folder))
    /\ pc' = "f_return"
    /\ UNCHANGED OutsideRun

\* the name ends with '.txt', '.csv' or '.tsv'
HasLedgerExtension(name) ==
    /\ Len(name) >= 4
    /\ name[Len(name) - 3] = "."
    /\ <<name[Len(name) - 2], name[Len(name) - 1], name[Len(name)]>>
           \in { <<"t", "x", "t">>, <<"c", "s", "v">>, <<"t", "s", "v">> }

\* the rows of the files of l with a ledger extension, AN/AD rows left out,
\* file after file
RECURSIVE LedgerRowsOf(_)
LedgerRowsOf(l) ==
    IF l = << >> THEN << >>
    ELSE (IF HasLedgerExtension(Head(l).name)
          THEN SelectSeq(Head(l).rows, LAMBDA r : r.JournalCode # "AN" /\ r.JournalCode # "AD")
          ELSE << >>) \o LedgerRowsOf(Tail(l))

\* C22: import_fecs loads a file of the folder iff its name ends with '.txt',
\* '.csv' or '.tsv'; it raises FileNotFoundError when the folder does not
\* exist and ValueError when the folder holds no such file; the result is the
\* concatenation of the loaded files without their AN/AD journal rows.
C22_LedgerFilesByExtension ==
    Returning("import_fecs") =>
        IF run.args.folder = None THEN run.ret.exc = "FileNotFoundError"
        ELSE IF \A i \in DOMAIN run.args.folder[1] :
                    ~HasLedgerExtension(run.args.folder[1][i].name)
        THEN run.ret.exc = "ValueError"
        ELSE /\ run.ret.exc = "None"
             /\ run.ret.fecs = LedgerRowsOf(run.args.folder[1])

\* the claim restricted to folders where every name that ends with the letters
\* txt, csv or tsv has the dot before them
ImportWithDottedNames ==
    (Returning("import_fecs") /\ run.args.folder # None /\
     \A i \in DOMAIN run.args.folder[1] :
         run.args.folder[1][i].name # <<"n", "_", "t", "x", "t">>)
        => C22_LedgerFilesByExtension

----------------------------------------------------------------------------
(* The forecasting command line: forecasting/cli.py main().  While main     *)
(* runs its checks, run holds its locals: args, all_companies,              *)
(* selected_companies, the answer to the prompt and the exit status.        *)

\* the folder names in sorted() order
CompanyOrder == <<"GHOST", "RESTO1", "RESTO2">>

\* discover_companies(data_folder): the folders that hold a company.json, sorted
discover_companies(json) == SelectSeq(CompanyOrder, LAMBDA c : Exists(json[c]))

\* str.lower() of the answers drawn
Lower(response) ==
    IF response = "Y" THEN "y"
    ELSE IF response = "N" THEN "n"
    ELSE IF response = "YES" THEN "yes"
    ELSE response

\* a faulty variant: everything but a refusal confirms
Confirmed_UnlessNo(response) == Lower(response) # "n"

\* the test of the prompt: response.lower() != 'y' cancels
Confirmed(response) == Lower(response) = "y"

\* what the user may type at the prompt
Responses == {"y", "Y", "n", "N", "", "yes", "YES"}

\* --companies: one or more ids, or the word all; --dry-run
CliArgs ==
    { [companies |-> ids, dry_run |-> dry] :
          ids \in SeqsUpTo(CompanyIds \cup {"all"}, MaxBatch) \ {<< >>}, dry \in BOOLEAN }

CliRun(args) ==
    [fn |-> "main", args |-> args, all_companies |-> << >>, selected_companies |-> << >>,
     response |-> None, exit |-> None]

CliPositions == {"cli_discover", "cli_filter", "cli_dry_run", "cli_confirm", "cli_run",
                 "cli_exit"}

\* main() starts on the data folder of the model, or on one where no folder
\* holds a company.json
InitCli ==
    /\ companyJson \in { [c \in CompanyIds |-> InitialCompanyJson(c)],
                         [c \in CompanyIds |-> NoFile] }
    /\ processDirs = {<<"RESTO1", PidStored>>, <<"RESTO1", PidNoCommon>>}
    /\ resultFiles = (FileKey("RESTO1", PidStored, GATHER) :> to_csv(StoredForecast)) @@
                     (FileKey("RESTO1", PidNoCommon, GATHER) :>
                          to_csv(SelectColumns(StoredForecast, <<A606100>>)))
    /\ pc = "cli_discover"
    /\ batch = IdleBatch
    /\ run \in { CliRun(args) : args \in CliArgs }
    /\ calls = << >>
    /\ nUuid = 0
    /\ nApi = 0
    /\ nFaults = 0
    /\ before = NoSnapshot

\* sys.exit(code)
CliExit(code) ==
    /\ run' = [run EXCEPT !.exit = Some(code)]
    /\ pc' = "cli_exit"

\* lines 81-85: exit 1 when no company is discovered
CliDiscover ==
    /\ pc = "cli_discover"
    /\ IF discover_companies(companyJson) = << >>
       THEN CliExit(1)
       ELSE /\ run' = [run EXCEPT !.all_companies = discover_companies(companyJson)]
            /\ pc' = "cli_filter"
    /\ UNCHANGED <<companyJson, processDirs, resultFiles, batch, calls, nUuid, nApi,
                   nFaults, before>>

\* lines 88-95: all companies, or the selected ones; exit 1 on ValueError
CliFilter ==
    /\ pc = "cli_filter"
    /\ IF run.args.companies = <<"all">>
       THEN /\ run' = [run EXCEPT !.selected_companies = run.all_companies]
            /\ pc' = "cli_dry_run"
       ELSE IF filter_companies(run.all_companies, Some(run.args.companies)).exc = "ValueError"
       THEN CliExit(1)
       ELSE /\ run' = [run EXCEPT !.selected_companies =
                           filter_companies(run.all_companies, Some(run.args.companies)).value]
            /\ pc' = "cli_dry_run"
    /\ UNCHANGED <<companyJson, processDirs, resultFiles, batch, calls, nUuid, nApi,
                   nFaults, before>>

\* lines 97-114: the list is shown; exit 0 in dry-run mode; the prompt follows
\* for more than one company
CliDryRun ==
    /\ pc = "cli_dry_run"
    /\ IF run.args.dry_run THEN CliExit(0)
       ELSE /\ pc' = IF Len(run.selected_companies) > 1 THEN "cli_confirm" ELSE "cli_run"
            /\ UNCHANGED run
    /\ UNCHANGED <<companyJson, processDirs, resultFiles, batch, calls, nUuid, nApi,
                   nFaults, before>>

\* lines 122-125: the answer is read; exit 0 unless it confirms
CliConfirm ==
    /\ pc = "cli_confirm"
    /\ \E response \in Responses :
           IF Confirmed(response)
           THEN /\ run' = [run EXCEPT !.response = Some(response)]
                /\ pc' = "cli_run"
           ELSE /\ run' = [run EXCEPT !.response = Some(response), !.exit = Some(0)]
                /\ pc' = "cli_exit"
    /\ UNCHANGED <<companyJson, processDirs, resultFiles, batch, calls, nUuid, nApi,
                   nFaults, before>>

\* lines 130-136: the BatchProcessor is created and process_companies called
CliProcess ==
    /\ pc = "cli_run"
    /\ batch' = [company_ids |-> run.selected_companies, i |-> 1, results |-> << >>]
    /\ nApi' = nApi + Len(run.selected_companies)
    /\ pc' = "b_loop"
    /\ UNCHANGED <<companyJson, processDirs, resultFiles, run, calls, nUuid, nFaults,
                   before>>

NextCli ==
    \/ CliDiscover
    \/ CliFilter
    \/ CliDryRun
    \/ CliConfirm
    \/ CliProcess
    \/ BatchStep
    \/ GetCompanyInfo
    \/ LoadFecs
    \/ MonthlyTotals
    \/ Preprocess
    \/ CheckForecastable
    \/ Forecast
    \/ SaveResult
    \/ SaveLower
    \/ SaveUpper
    \/ UpdateMetadata
    \/ ReturnFromRun
    \/ BatchReturn

SpecCli == InitCli /\ [][NextCli]_vars

\* the companies the command line selects, from the arguments and the folder:
\* None when a selected id is no company
SelectedByArgs ==
    LET found == {c \in CompanyIds : "missing" \notin DOMAIN companyJson[c]}
    IN IF run.args.companies = <<"all">>
       THEN Some(SelectSeq(CompanyOrder, LAMBDA c : c \in found))
       ELSE IF \E i \in DOMAIN run.args.companies : run.args.companies[i] \notin found
       THEN None
       ELSE Some(run.args.companies)

\* one of the four cases in which nothing is to be forecast: its exit status,
\* or None when processing is due
NoForecastCase ==
    IF \A c \in CompanyIds : "missing" \in DOMAIN companyJson[c] THEN Some(1)
    ELSE IF SelectedByArgs = None THEN Some(1)
    ELSE IF run.args.dry_run THEN Some(0)
    ELSE IF Len(SelectedByArgs[1]) > 1
            /\ (run.response = None \/ run.response \notin {Some("y"), Some("Y")})
    THEN Some(0)
    ELSE None

\* C23: the command line runs no forecast (no BatchProcessor, no file written)
\* when no company is discovered (exit 1), when a selected id is unknown
\* (exit 1), with --dry-run (exit 0), or when more than one company is selected
\* and the answer to the prompt is not 'y' or 'Y' (exit 0); processing starts
\* only after these checks have passed, on the companies selected; a single
\* selected company is processed without a prompt.
C23_NoForecastBeforeChecks ==
    [][/\ pc' \in CliPositions =>
              /\ UNCHANGED <<companyJson, processDirs, resultFiles, batch, nUuid, calls>>
              /\ batch = IdleBatch
       /\ (pc \in CliPositions /\ pc' \notin CliPositions) =>
              /\ NoForecastCase = None
              /\ batch'.company_ids = SelectedByArgs[1]
       /\ (pc \in CliPositions /\ pc' = "cli_exit") =>
              /\ NoForecastCase' # None
              /\ run'.exit = NoForecastCase'
       /\ pc' = "cli_confirm" => Len(SelectedByArgs[1]) > 1
      ]_vars

\* C23 witness: two companies were selected, the prompt was answered 'yes' and
\* main has exited with status 0
C23_Witness ==
    /\ pc = "cli_exit"
    /\ run.args.companies = <<"RESTO1", "RESTO2">>
    /\ ~run.args.dry_run
    /\ run.response = Some("yes")
    /\ run.exit = Some(0)
    /\ batch = IdleBatch
    /\ nUuid = 0

\* a company selected alone has been processed: the loop of process_companies
\* is over with one result
SingleCompanyProcessed ==
    /\ pc = "b_loop"
    /\ batch.company_ids = <<"RESTO2">>
    /\ Len(batch.results) = 1

----------------------------------------------------------------------------
(* The accounts a run forecasts *)

\* the forecaster has returned in the current run
Forecasted == InRun /\ run.forecast_result # Unset

\* C27: every account that process_company forecasts, counts in
\* accounts_forecasted and records in the new version's meta_data is one of
\* the preprocessing result's forecastable_accounts (active in the last N
\* months); an account excluded as inactive is never forecast or recorded
C27_OnlyForecastableAccounts ==
    Forecasted =>
        LET forecastable == Range(run.preprocessing.forecastable_accounts)
        IN /\ Range(run.forecast_result.accounts) \subseteq forecastable
           /\ Range(run.forecast_result.forecast_df.columns) \subseteq forecastable
           /\ (pc = "pc_return" /\ run.result.status = SUCCESS) =>
                 LET versions == StoredVersions(companyJson[run.company_id])
                 IN /\ run.result.accounts_forecasted <= Cardinality(forecastable)
                    /\ DOMAIN versions[Len(versions)].meta_data \subseteq forecastable

\* the case of C27: a run of RESTO1 returns Success having forecast and
\* recorded an account that is not among the forecastable accounts
InactiveAccountRecorded ==
    /\ pc = "pc_return"
    /\ run.company_id = "RESTO1"
    /\ run.result.status = SUCCESS
    /\ LET versions == StoredVersions(companyJson["RESTO1"])
       IN A606100 \in DOMAIN versions[Len(versions)].meta_data
    /\ A606100 \notin Range(run.preprocessing.forecastable_accounts)
    /\ A606100 \in Range(run.forecast_result.accounts)

----------------------------------------------------------------------------
(* What runs of process_company leave in the data folder *)

\* the forecast versions of company c that a run of process_company appended:
\* their process_id is one of the uuids drawn so far
RunVersions(c) ==
    {j \in DOMAIN StoredVersions(companyJson[c]) :
        StoredVersions(companyJson[c])[j].process_id \in 1..nUuid}

\* C28: after any sequence of process_company runs, successful or failing at
\* any stage, every forecast version that a run appended to company.json has
\* its gather_result file in the folder <data>/<company>/<process_id>
C28_AppendedVersionHasGatherResult ==
    \A c \in CompanyIds :
        Exists(companyJson[c]) =>
            \A j \in RunVersions(c) :
                LET process_id == StoredVersions(companyJson[c])[j].process_id
                IN /\ <<c, process_id>> \in processDirs
                   /\ HasFile(resultFiles, c, process_id, GATHER)

\* C28 witness: two runs of RESTO1 are over, one that failed while saving and
\* one that appended its version, whose gather_result is on disk
C28_Witness ==
    /\ pc = "idle"
    /\ nUuid = 2
    /\ nFaults >= 1
    /\ Cardinality(RunVersions("RESTO1")) = 1
    /\ \E p \in 1..nUuid :
          /\ <<"RESTO1", p>> \in processDirs
          /\ ~HasFile(resultFiles, "RESTO1", p, GATHER)
    /\ \A j \in RunVersions("RESTO1") :
          HasFile(resultFiles, "RESTO1",
                  StoredVersions(companyJson["RESTO1"])[j].process_id, GATHER)

\* process_company is about to return a status other than 'Success'
ReturnsFailure == pc = "pc_return" /\ run.result.status # SUCCESS

----------------------------------------------------------------------------
(* The three writers of company.json, called one after the other:           *)
(* update_company_metadata, compute_metrics_for_company and                  *)
(* compute_all_missing_metrics.  Each call returns before the next begins.  *)

\* compute_all_missing_metrics has returned to its caller
AllMissingDone ==
    /\ pc = "a_done"
    /\ pc' = "idle"
    /\ batch' = IdleBatch
    /\ before' = NoSnapshot
    /\ UNCHANGED <<companyJson, processDirs, resultFiles, run, calls, nUuid, nApi, nFaults>>

NextSequential ==
    \/ \E c \in CompanyIds, args \in ApiArgs : UpdateCompanyMetadataCall(c, args)
    \/ \E t \in MetricsTargets : ComputeMetricsCall(t[1], t[2])
    \/ ReturnFromCall
    \/ AllMissingCall
    \/ NextCompanyFolder
    \/ VersionStep
    \/ VersionsDone
    \/ AllMissingReturn
    \/ AllMissingDone

SpecSequential == Init /\ [][NextSequential]_vars

\* the step is update_company_metadata returning normally on company c
AppendedTo(c) ==
    /\ pc' = "u_return"
    /\ run'.company_id = c
    /\ run'.result.exc = "None"

\* the step has computed the metrics of process_id for company c: one call of
\* compute_metrics_for_company, direct or from the loop of
\* compute_all_missing_metrics, that returned without an error
ComputedFor(c, process_id) ==
    \/ /\ pc' = "m_return"
       /\ run'.company_id = c
       /\ run'.process_id = Some(process_id)
       /\ run'.result.exc = "None"
    \/ /\ pc = "a_versions"
       /\ calls' # calls
       /\ calls'[Len(calls')][3] = "Success"
       /\ batch.company_id = c
       /\ batch.versions[batch.j].process_id = process_id

\* the version holds these metrics and is otherwise the version it was
HoldsMetricsOf(new, old, out) ==
    /\ "metrics" \in DOMAIN new
    /\ new.metrics = out.aggregated_metrics
    /\ \A a \in DOMAIN out.account_metrics :
          /\ a \in DOMAIN new.meta_data
          /\ new.meta_data[a].metrics = out.account_metrics[a].metrics
    /\ new.version_name = old.version_name
    /\ new.process_id = old.process_id
    /\ new.status = old.status

\* what one step may do to the forecast versions of company c
KeepsUpdatesOf(c) ==
    LET old == StoredVersions(companyJson[c])
        new == StoredVersions(companyJson'[c])
    IN IF AppendedTo(c)
       THEN new = Append(old, Version(run'.result.args.version_name,
                                      run'.result.args.process_id,
                                      run'.result.args.status,
                                      run'.result.args.account_metadata))
       ELSE /\ Len(new) = Len(old)
            /\ \A j \in DOMAIN old :
                  IF ComputedFor(c, old[j].process_id)
                     /\ j = FirstVersionWith(old, old[j].process_id)
                  THEN HoldsMetricsOf(new[j], old[j],
                           compute_metrics(companyJson[c], resultFiles, c,
                                           old[j].process_id, ForecastHorizon))
                  ELSE new[j] = old[j]

\* C24: under sequential execution no update to company.json is lost: every
\* step of update_company_metadata, compute_metrics_for_company and
\* compute_all_missing_metrics leaves each company's forecast versions as they
\* were, or appends the new version after them, or stores the metrics just
\* computed for a process_id in the version they are kept in (the first with
\* that process_id); the copy compute_all_missing_metrics read before looping
\* is never written back
C24_NoUpdateLost ==
    [][\A c \in CompanyIds :
           /\ Exists(companyJson'[c]) = Exists(companyJson[c])
           /\ KeepsUpdatesOf(c)]_vars

\* C24 witness: compute_all_missing_metrics is looping over a copy of the
\* versions that is older than the file: the file holds a version appended by
\* update_company_metadata before the call and metrics stored by the loop
C24_Witness ==
    /\ pc = "a_versions"
    /\ batch.company_id = "RESTO1"
    /\ batch.j > 1
    /\ Len(StoredVersions(companyJson["RESTO1"])) = Len(InitialCompanyJson("RESTO1").forecast_versions) + 1
    /\ batch.versions # StoredVersions(companyJson["RESTO1"])
    /\ "metrics" \in DOMAIN StoredVersions(companyJson["RESTO1"])[1]
    /\ "metrics" \notin DOMAIN batch.versions[1]

----------------------------------------------------------------------------
(* compute_all_missing_metrics run again: the command is started a second   *)
(* time after it has returned.  calls keeps the lines of every run; the     *)
(* two counters of the summary count those of the run in progress.          *)

NextRerun ==
    \/ NextAllMetrics
    \/ AllMissingDone

SpecRerun == InitAllMetrics /\ [][NextRerun]_vars

\* the number of compute_metrics_for_company calls of the run that is ending
CallsOfThisRun == batch.companies_processed + batch.companies_failed

\* the (company, version) pairs computed by the run that is ending
ComputedByThisRun ==
    {<<calls[k][1], calls[k][2]>> : k \in (Len(calls) - CallsOfThisRun + 1)..Len(calls)}

\* every computation of the runs before this one succeeded for company c
EarlierRunsSucceeded(c) ==
    \A k \in 1..(Len(calls) - CallsOfThisRun) : calls[k][1] = c => calls[k][3] = "Success"

\* no two versions of the company.json share a process_id
DistinctProcessIds(json) ==
    \A i, j \in DOMAIN StoredVersions(json) :
        i # j => StoredVersions(json)[i].process_id # StoredVersions(json)[j].process_id

\* at the return of a run: it has computed exactly the versions of c that had
\* no 'metrics' and had their gather_result when the run began
ComputedExactlyTheMissing(c) ==
    {j \in 1..Len(StoredVersions(before.companyJson[c])) : <<c, j>> \in ComputedByThisRun}
        = VersionsToCompute(before.companyJson[c], before.resultFiles, c)

\* at the return of a run: the versions of c that had 'metrics' when the run
\* began were not computed and are as they were
MetricsKept(c) ==
    \A j \in DOMAIN StoredVersions(before.companyJson[c]) :
        "metrics" \in DOMAIN StoredVersions(before.companyJson[c])[j] =>
            /\ <<c, j>> \notin ComputedByThisRun
            /\ StoredVersions(companyJson[c])[j] = StoredVersions(before.companyJson[c])[j]

\* at the return of a second run that follows runs in which every
\* computation for c succeeded: nothing was computed for c, and its
\* company.json is as it was
SecondRunIdle(c) ==
    (nApi >= 2 /\ EarlierRunsSucceeded(c)) =>
        /\ \A p \in ComputedByThisRun : p[1] # c
        /\ companyJson[c] = before.companyJson[c]

\* C26 as stated: compute_all_missing_metrics computes exactly the versions
\* without 'metrics' whose gather_result exists, never recomputes or modifies a
\* version that has 'metrics', and a second run right after a run in which
\* every version succeeded computes nothing and leaves every company.json
\* unchanged
C26_SecondRunComputesNothing ==
    pc = "a_done" =>
        \A c \in CompanyIds :
            ComputedExactlyTheMissing(c) /\ MetricsKept(c) /\ SecondRunIdle(c)

\* the part of C26 the code keeps: the same, the second-run part for the
\* company.json files in which no two versions share a process_id (the metrics
\* computed for a version are stored in the first version with its process_id,
\* so a later version with the same process_id never gets 'metrics')
SecondRunComputesNothingDistinctIds ==
    pc = "a_done" =>
        \A c \in CompanyIds :
            /\ ComputedExactlyTheMissing(c)
            /\ MetricsKept(c)
            /\ DistinctProcessIds(before.companyJson[c]) => SecondRunIdle(c)

\* a second run returns after a first run that computed the metrics of a
\* version of RESTO1 with success; the file has versions with distinct
\* process_ids, one with the metrics of the first run and one skipped for want
\* of its gather_result
SecondRunAfterSuccess ==
    /\ pc = "a_done"
    /\ nApi = 2
    /\ DistinctProcessIds(companyJson["RESTO1"])
    /\ Len(StoredVersions(companyJson["RESTO1"])) = 2
    /\ \E k \in DOMAIN calls : calls[k] = <<"RESTO1", 1, "Success">>
    /\ EarlierRunsSucceeded("RESTO1")
    /\ "metrics" \in DOMAIN StoredVersions(companyJson["RESTO1"])[1]
    /\ "metrics" \notin DOMAIN StoredVersions(companyJson["RESTO1"])[2]

----------------------------------------------------------------------------
(* The metrics table of the dashboard: visualization/callbacks.py,          *)
(* update_metrics_table.  A dropdown value is a sequence of its parts: the  *)
(* prefix "AGG:" and the key of the view, or an account number.  Of the      *)
(* metrics computed on the fly only their origin matters here.              *)

\* dict.get(key, default)
DictGet(d, key, default) == IF key \in DOMAIN d THEN d[key] ELSE default

\* the approaches (version names) of the dashboard
Approaches == {"Prophet-v1", "TabPFN-v1.0.0"}

\* the views of the dropdown (AGG_LABELS) and one key that is none of them
AggKeys == {"net_income", "total_revenue", "total_expenses"}

\* get_aggregated_series raises ValueError on any other key
KnownAggregation(agg_type) == agg_type \in AggKeys

\* compute_aggregated_metrics_on_the_fly: one dict for every forecast series,
\* with every metric name
compute_aggregated_metrics_on_the_fly(forecast_series_dict) ==
    [a \in forecast_series_dict |-> [m \in MetricNames |-> "on_the_fly"]]

\* not m, for a dict or None
Falsy(m) == m = << >>

\* create_empty_metrics_table(message)
EmptyTable(message) == [kind |-> "empty", message |-> message]

\* create_metrics_comparison_table(metrics_by_approach, title)
MetricsTable(metrics_by_approach, title) ==
    [kind |-> "table", metrics_by_approach |-> metrics_by_approach, title |-> title]

\* the last lines of the callback: the table, or the placeholder when no
\* approach has a metric
TableOrEmpty(metrics_by_approach, title) ==
    IF DOMAIN metrics_by_approach = {} \/
       \A a \in DOMAIN metrics_by_approach : Falsy(metrics_by_approach[a])
    THEN EmptyTable("CALLBACK_NO_METRICS")
    ELSE MetricsTable(metrics_by_approach, title)

\* the pre-computed metrics of one approach for the view: None when the view's
\* key is not among its aggregated metrics
PrecomputedFor(dashboard_data, approach_name, agg_key) ==
    LET agg_metrics == DictGet(dashboard_data.aggregated_metrics, approach_name, << >>)
    IN IF agg_key \in DOMAIN agg_metrics
       THEN Some(DictGet(agg_metrics[agg_key], "metrics", << >>))
       ELSE None

\* the aggregated branch of update_metrics_table
AggregatedTable(dashboard_data, agg_type) ==
    LET approaches == DOMAIN dashboard_data.forecasts
        found == [a \in approaches |-> PrecomputedFor(dashboard_data, a, agg_type)]
    IN IF \E a \in approaches : found[a] = None
       THEN IF ~KnownAggregation(agg_type)
            THEN EmptyTable("CALLBACK_ERROR_METRICS")
            ELSE TableOrEmpty(compute_aggregated_metrics_on_the_fly(approaches), agg_type)
       ELSE TableOrEmpty([a \in approaches |-> found[a][1]], agg_type)

\* the individual-account branch of update_metrics_table
AccountTable(dashboard_data, account) ==
    LET approaches == DOMAIN dashboard_data.forecasts
        all_accounts == UNION {dashboard_data.forecasts[a] : a \in approaches}
        found == [a \in approaches |->
                     DictGet(DictGet(dashboard_data.account_metrics, a, << >>),
                             account, << >>)]
        with_account == {a \in approaches : account \in dashboard_data.forecasts[a]}
    IN IF account \notin all_accounts THEN EmptyTable("CALLBACK_ACCOUNT_NOT_FOUND")
       ELSE IF (\A a \in approaches : Falsy(found[a])) /\ with_account # {}
       THEN TableOrEmpty(compute_aggregated_metrics_on_the_fly(with_account), account)
       ELSE TableOrEmpty(found, account)

\* update_metrics_table(selected_value) over the loaded dashboard data
update_metrics_table(dashboard_data, selected_value) ==
    IF selected_value = << >> THEN EmptyTable("CALLBACK_SELECT_ACCOUNT")
    ELSE IF StartsWith(selected_value, <<"AGG:">>)
    THEN AggregatedTable(dashboard_data, selected_value[2])
    ELSE AccountTable(dashboard_data, selected_value[1])

\* metric values as stored in company.json
StoredMetricValues == [m \in MetricNames |-> "stored"]

\* version['metrics'] as the metrics pipeline writes it: 'net_income' maps
\* metric names to values (aggregation.py, result['net_income'])
PipelineMetrics ==
    [net_income |-> StoredMetricValues, account_type |-> << >>, forecast_type |-> << >>]

\* version['metrics'] of other shapes a company.json may hold: the view's key
\* with a 'metrics' entry, and no key of any view
OtherMetricsShapes ==
    { [net_income |-> [metrics |-> StoredMetricValues]],
      [account_type |-> << >>] }

\* the dashboard data of the callback: the forecasts by approach (their
\* columns), the aggregated metrics and the account metrics of some approaches
DashboardDrawn ==
    { [forecasts |-> [a \in as |-> cols], aggregated_metrics |-> agg, account_metrics |-> acc] :
          as \in {{"Prophet-v1"}, Approaches},
          cols \in {{"601000", "707000"}},
          agg \in UNION {[ks -> {PipelineMetrics} \cup OtherMetricsShapes] : ks \in SUBSET Approaches},
          acc \in { << >>, [a \in {"Prophet-v1"} |-> [a707000 \in {"707000"} |-> StoredMetricValues]] } }

\* the values of the dropdown, and one aggregated key no view has
SelectedValues ==
    { << >>, <<"AGG:", "net_income">>, <<"AGG:", "total_revenue">>, <<"AGG:", "margin">>,
      <<"707000">>, <<"601000">>, <<"999999">> }

UpdateMetricsTableCall ==
    /\ pc = "idle"
    /\ \E dashboard_data \in DashboardDrawn, selected_value \in SelectedValues :
          run' = CallRecord("update_metrics_table",
                            [dashboard_data |-> dashboard_data,
                             selected_value |-> selected_value],
                            update_metrics_table(dashboard_data, selected_value))
    /\ pc' = "f_return"
    /\ UNCHANGED OutsideRun

\* every approach of the dashboard has aggregated metrics, written by the
\* metrics pipeline, for the view
PipelineMetricsForEveryApproach(dashboard_data, agg_key) ==
    \A a \in DOMAIN dashboard_data.forecasts :
        /\ a \in DOMAIN dashboard_data.aggregated_metrics
        /\ dashboard_data.aggregated_metrics[a] = PipelineMetrics
        /\ agg_key \in DOMAIN PipelineMetrics

\* C25: when an aggregated view is selected and the aggregated metrics the
\* pipeline wrote for that view exist for every approach, the table shows
\* those values; metrics are computed on the fly only when some approach lacks
\* pre-computed metrics for the view
C25_PrecomputedMetricsShown ==
    (Returning("update_metrics_table") /\ StartsWith(run.args.selected_value, <<"AGG:">>)) =>
        LET data == run.args.dashboard_data
            agg_key == run.args.selected_value[2]
        IN /\ PipelineMetricsForEveryApproach(data, agg_key) =>
                 /\ run.ret.kind = "table"
                 /\ \A a \in DOMAIN data.forecasts :
                        run.ret.metrics_by_approach[a] = data.aggregated_metrics[a][agg_key]
           /\ (run.ret.kind = "table" /\
               \E a \in DOMAIN data.forecasts :
                   run.ret.metrics_by_approach[a] = [m \in MetricNames |-> "on_the_fly"]) =>
                 \E a \in DOMAIN data.forecasts :
                     agg_key \notin DOMAIN DictGet(data.aggregated_metrics, a, << >>)

\* the part of C25 the code keeps: an aggregated view is computed on the fly
\* only when some approach has no entry for the view
OnTheFlyOnlyWhenMissing ==
    (Returning("update_metrics_table") /\ StartsWith(run.args.selected_value, <<"AGG:">>)
        /\ run.ret.kind = "table"
        /\ \E a \in DOMAIN run.args.dashboard_data.forecasts :
               run.ret.metrics_by_approach[a] = [m \in MetricNames |-> "on_the_fly"]) =>
        \E a \in DOMAIN run.args.dashboard_data.forecasts :
            run.args.selected_value[2] \notin
                DOMAIN DictGet(run.args.dashboard_data.aggregated_metrics, a, << >>)

\* the case of C25: the net income view with the pipeline's metrics for every
\* approach; the callback returns the placeholder
PipelineMetricsGiveEmptyTable ==
    /\ Returning("update_metrics_table")
    /\ run.args.selected_value = <<"AGG:", "net_income">>
    /\ DOMAIN run.args.dashboard_data.forecasts = Approaches
    /\ PipelineMetricsForEveryApproach(run.args.dashboard_data, "net_income")
    /\ run.ret = EmptyTable("CALLBACK_NO_METRICS")

----------------------------------------------------------------------------
(* The dashboard loader: visualization/data_loader.py,                      *)
(* load_company_dashboard_data, called between runs of process_company      *)

\* load_confidence_intervals(process_folder): the two interval frames, None
\* for a file that is not there
load_confidence_intervals(files, c, process_id) ==
    [lower |-> IF HasFile(files, c, process_id, LOWER)
               THEN Some(load_gather_result(files[FileKey(c, process_id, LOWER)]).df)
               ELSE None,
     upper |-> IF HasFile(files, c, process_id, UPPER)
               THEN Some(load_gather_result(files[FileKey(c, process_id, UPPER)]).df)
               ELSE None]

\* the five dicts of the loader, all keyed by version name
NoEntries == [forecasts |-> << >>, forecast_lower |-> << >>, forecast_upper |-> << >>,
              account_metrics |-> << >>, aggregated_metrics |-> << >>]

\* d[key] = value
DictSet(d, key, value) == (key :> value) @@ d

\* the account metrics of a version: the non-empty 'metrics' of its meta_data
VersionAccountMetrics(version) ==
    LET meta_data == MetaDataOf(version)
    IN [a \in {b \in DOMAIN meta_data : DictGet(meta_data[b], "metrics", << >>) # << >>} |->
           meta_data[a].metrics]

\* whether the gather_result of the version is on disk and loads
GatherLoads(files, c, version) ==
    /\ HasFile(files, c, version.process_id, GATHER)
    /\ load_gather_result(files[FileKey(c, version.process_id, GATHER)]).exc = "None"

\* one turn of the loop over forecast_versions: the entries after it
LoadVersion(entries, files, c, version) ==
    IF ~GatherLoads(files, c, version) THEN entries
    ELSE LET name == version.version_name
             ci == load_confidence_intervals(files, c, version.process_id)
         IN [forecasts |->
                 DictSet(entries.forecasts, name,
                         load_gather_result(files[FileKey(c, version.process_id, GATHER)]).df),
             forecast_lower |-> DictSet(entries.forecast_lower, name, ci.lower),
             forecast_upper |-> DictSet(entries.forecast_upper, name, ci.upper),
             account_metrics |->
                 DictSet(entries.account_metrics, name, VersionAccountMetrics(version)),
             aggregated_metrics |->
                 IF "metrics" \in DOMAIN version
                 THEN DictSet(entries.aggregated_metrics, name, version.metrics)
                 ELSE entries.aggregated_metrics]

\* the loop over forecast_versions, first to last
RECURSIVE LoadVersions(_, _, _, _)
LoadVersions(entries, files, c, versions) ==
    IF versions = << >> THEN entries
    ELSE LoadVersions(LoadVersion(entries, files, c, Head(versions)), files, c,
                      Tail(versions))

\* load_company_dashboard_data(c, forecast_horizon=h): the exception raised, or
\* the fields of the DashboardData returned
load_company_dashboard_data(company_data, files, c, h) ==
    IF ~Exists(company_data) THEN [exc |-> "FileNotFoundError"]
    ELSE IF StoredVersions(company_data) = << >> THEN [exc |-> "ValueError"]
    ELSE IF ~HasFecFiles(c) THEN [exc |-> "ValueError"]
    ELSE IF \E j \in DOMAIN StoredVersions(company_data) :
                StoredVersions(company_data)[j].process_id = NullPid
    THEN [exc |-> "TypeError"]
    ELSE LET fecs == load_fecs(formatage(FecRows(c)), company_data.accounting_up_to_date, h)
             entries == LoadVersions(NoEntries, files, c, StoredVersions(company_data))
         IN IF entries.forecasts = << >> THEN [exc |-> "ValueError"]
            ELSE [exc |-> "None",
                  company_id |-> c,
                  train_data |-> PivotFilled(fec_to_monthly_totals(fecs.train)),
                  test_data |-> PivotFilled(fec_to_monthly_totals(fecs.test)),
                  forecasts |-> entries.forecasts,
                  forecast_lower |-> entries.forecast_lower,
                  forecast_upper |-> entries.forecast_upper,
                  account_metrics |-> entries.account_metrics,
                  aggregated_metrics |-> entries.aggregated_metrics,
                  forecast_versions |-> StoredVersions(company_data)]

LoadDashboardCall(c) ==
    /\ pc = "idle"
    /\ run' = [IdleRun EXCEPT !.company_id = c, !.caller = "direct",
                              !.result = load_company_dashboard_data(
                                             companyJson[c], resultFiles, c, ForecastHorizon)]
    /\ pc' = "d_return"
    /\ UNCHANGED <<companyJson, processDirs, resultFiles, batch, calls, nUuid, nApi,
                   nFaults, before>>

DashboardReturn ==
    /\ pc = "d_return"
    /\ run' = IdleRun
    /\ pc' = "idle"
    /\ UNCHANGED <<companyJson, processDirs, resultFiles, batch, calls, nUuid, nApi,
                   nFaults, before>>

NextDashboard ==
    \/ \E c \in CompanyIds : ProcessCompanyCall(c)
    \/ GetCompanyInfo
    \/ LoadFecs
    \/ MonthlyTotals
    \/ Preprocess
    \/ CheckForecastable
    \/ Forecast
    \/ SaveResult
    \/ SaveLower
    \/ SaveUpper
    \/ UpdateMetadata
    \/ ReturnFromRun
    \/ \E c \in CompanyIds : LoadDashboardCall(c)
    \/ DashboardReturn

SpecDashboard == Init /\ [][NextDashboard]_vars

\* the versions of the company whose gather_result loads
LoadableVersions(c) ==
    {j \in DOMAIN StoredVersions(companyJson[c]) :
        GatherLoads(resultFiles, c, StoredVersions(companyJson[c])[j])}

OneEntryPerVersionName ==
    (pc = "d_return" /\ run.result.exc = "None") =>
        LET c == run.company_id
            versions == StoredVersions(companyJson[c])
            names == {versions[j].version_name : j \in LoadableVersions(c)}
        IN /\ DOMAIN run.result.forecasts = names
           /\ DOMAIN run.result.account_metrics = names
           /\ \A j \in LoadableVersions(c) :
                  (\A k \in LoadableVersions(c) :
                       versions[k].version_name = versions[j].version_name => k <= j) =>
                      run.result.forecasts[versions[j].version_name] =
                          load_gather_result(
                              resultFiles[FileKey(c, versions[j].process_id, GATHER)]).df

\* the case of C29: the loader returns after two successful runs of RESTO1,
\* and the two appended versions share one entry
TwoRunsOneEntry ==
    /\ pc = "d_return"
    /\ run.company_id = "RESTO1"
    /\ run.result.exc = "None"
    /\ Cardinality(RunVersions("RESTO1")) = 2
    /\ RunVersions("RESTO1") \subseteq LoadableVersions("RESTO1")
    /\ Cardinality(DOMAIN run.result.forecasts) = Cardinality(LoadableVersions("RESTO1")) - 1

----------------------------------------------------------------------------
(* The specification of the library functions *)

InitFunctions ==
    /\ companyJson = [c \in CompanyIds |-> InitialCompanyJson(c)]
    /\ processDirs = {}
    /\ resultFiles = << >>
    /\ pc = "idle"
    /\ batch = IdleBatch
    /\ run = IdleRun
    /\ calls = << >>
    /\ nUuid = 0
    /\ nApi = 0
    /\ nFaults = 0
    /\ before = NoSnapshot

NextFunctions ==
    \/ FilterCompaniesCall
    \/ LoadFecsCall
    \/ MonthlyTotalsCall
    \/ RoundTripCall
    \/ LoadGatherCall
    \/ SeasonalNaiveCall
    \/ AllMetricsCall
    \/ PreprocessCall
    \/ PreprocessCovidCall
    \/ ImportFecsCall
    \/ UpdateMetricsTableCall
    \/ FunctionReturn

SpecFunctions == InitFunctions /\ [][NextFunctions]_vars

====
